---- MODULE Spec2Model ----
(***************************************************************************)
(* Streaming sessions of VisitorOnCameraStreamingDelegate and the          *)
(* FFmpegProcess supervisor (src/homebridge/accessories/camera.ts).        *)
(*                                                                         *)
(* ActiveSession values are heap objects: ongoingSessions maps a session   *)
(* id to a reference, and the handlers the code registers on an object's   *)
(* socket, timers and processes keep the object alive after the map has    *)
(* dropped or replaced the reference.  `sessions` is that heap.            *)
(*                                                                         *)
(* The module also covers the snapshot pipeline of the delegate            *)
(* (fetchSnapshot, resizeSnapshot, handleSnapshotRequest), the motion      *)
(* state CameraAccessories keeps per accessory, and determineResolution.   *)
(* The reconnection logic of Client (src/core/client.ts) and the order of  *)
(* SemanticVersion (src/core/utils.ts) are followed in specifications of   *)
(* their own.                                                              *)
(***************************************************************************)
EXTENDS Integers, Sequences, FiniteSets, TLC

\* ---------------------------------------------------------------- bounds
NumSessionIds == 1      \* distinct session ids the hub uses
MoreSessionIds == 2     \* the same, where one ActiveSession is followed
MaxPrepares   == 1      \* prepareStream calls suspended at the same time
MaxStarts     == 2      \* ActiveSession objects created in one behaviour
RtcpWindow    == 1      \* rtcp_interval * 5 seconds, in clock ticks
MaxFeeds      == 2      \* feed callbacks of a session suspended at once

SessionIds == 1 .. NumSessionIds

AllIds == 1 .. MoreSessionIds

\* ------------------------------------------------------ program constants
Signalled == -1         \* exit code null: the process ended by a signal
ExitCodes == {0, 1, 255, Signalled}

VARIABLES
    returnAudioTarget,  \* videoConfig.returnAudioTarget is configured
    pendingSessions,    \* keys of the Map<sessionID, SessionInfo>
    ongoingSessions,    \* Map<sessionID, reference to an ActiveSession>
    sessions,           \* heap of ActiveSession objects, in creation order
    prepares,           \* prepareStream invocations suspended at an await
    unprepared,         \* history: ids never prepared, or stopped since
                        \* their last completed prepareStream
    consumed,           \* history: ids whose PendingSession a start has
                        \* taken since their last completed prepareStream
    last,               \* what the handler that ran last did
    alternativeSnapshot,    \* the idle image has been downloaded
    snapshotPromise,    \* the slot: 0 for undefined, or a reference
    promises,           \* heap of the promises fetchSnapshot has created
    requests,           \* handleSnapshotRequest invocations, in call order
    context,            \* CameraAccessoryInterface: the motion state
    motionTimers,       \* heap of the timers createMotionTimer has made
    visitors,           \* invocations of the visitor-picture listener
    videoConfig,        \* maxWidth, maxHeight, forceMax, videoFilter
    resolution,         \* the last call of determineResolution
    prepareCalls,       \* heap of prepareStream invocations, in call order
    sessionInfos,       \* the values of the pendingSessions map
    client,             \* the fields of the Client (src/core/client.ts)
    semaphore,          \* the semaphore file of the UI server exists
    versions            \* SemanticVersion objects and their comparison

streamVars == <<returnAudioTarget, pendingSessions, ongoingSessions,
                sessions, prepares, unprepared, consumed>>

snapshotVars == <<alternativeSnapshot, snapshotPromise, promises, requests>>

motionVars == <<context, motionTimers, visitors>>

plannerVars == <<videoConfig, resolution>>

prepareVars == <<prepareCalls, sessionInfos>>

clientVars == <<client, semaphore>>

\* State that is followed in specifications of its own.
aside == <<prepareVars, clientVars, versions>>

\* What the snapshot pipeline leaves alone.
elsewhere == <<streamVars, motionVars, plannerVars, aside>>

\* What the handlers of the motion state leave alone.
delegate == <<streamVars, snapshotVars, plannerVars, aside>>

vars == <<returnAudioTarget, pendingSessions, ongoingSessions, sessions,
          prepares, unprepared, consumed, last,
          alternativeSnapshot, snapshotPromise, promises, requests,
          context, motionTimers, visitors, videoConfig, resolution,
          prepareCalls, sessionInfos, client, semaphore, versions>>

\* --------------------------------------------------------------- helpers
Without(f, k) == [x \in DOMAIN f \ {k} |-> f[x]]

With(f, k, v) == [x \in DOMAIN f \cup {k} |-> IF x = k THEN v ELSE f[x]]

NoProcess == [state |-> "none"]

Refs == DOMAIN sessions

Which == {"mainProcess", "returnProcess"}

HasProcess(o, w) == sessions[o][w].state # "none"

\* Events: the record a handler leaves in `last`.  `ref` is the ActiveSession
\* whose socket raised the event, where a socket did.
Event(op, sid) ==
    [op |-> op, sid |-> sid, code |-> 0, callback |-> "none",
     forced |-> FALSE, stopped |-> FALSE, caught |-> {},
     codec |-> "none", args |-> <<>>, ref |-> 0]

\* The calls stopStream wraps in try blocks.
Guarded == {"socket", "mainProcess", "returnProcess"}

\* ---------------------------------------------------------- FFmpegProcess
\* new FFmpegProcess(...): spawn either works or reports its failure in an
\* 'error' event on the next tick.
NewProcess(ok, hasCallback) ==
    [state       |-> IF ok THEN "running" ELSE "spawnfail",
     killTimeout |-> "undef",
     killed      |-> FALSE,
     started     |-> FALSE,
     callback    |-> hasCallback,
     readyOk     |-> 0,
     readyErr    |-> 0,
     stops       |-> 0,
     wroteAfterEnd |-> FALSE]

\* FFmpegProcess.stop(): stdin.end(), then arm the 2 s grace timer.  A throw
\* from stdin.end() leaves the timer as it was.  `stops` counts the calls.
ProcessStop(p, throws) ==
    IF throws
    THEN [p EXCEPT !.stops = @ + 1]
    ELSE [p EXCEPT !.stops = @ + 1,
                   !.killTimeout = "armed"]

\* ------------------------------------------------------------- stopStream
\* The body of `if(session) {...}`: what stopStream does to the object the
\* map holds for the id.  t names the guarded calls that throw.  `closes`
\* counts the calls of close(), after which the socket is not running
\* whether or not the call threw; `quiet`, the clock of the listening
\* socket, stops with it.
TeardownAbort(s, t) ==
    LET cleared == [s EXCEPT
                       !.timeout = IF @ = "armed" THEN "spent" ELSE @,
                       !.feedInterval = IF @ = "armed" THEN "spent" ELSE @,
                       !.socket = "closed",
                       !.quiet = 0,
                       !.closes = @ + 1]
    IN  IF "socket" \in t THEN cleared
        ELSE IF "mainProcess" \in t \/ s.returnProcess.state = "none"
        THEN [cleared EXCEPT !.mainProcess = ProcessStop(@, FALSE)]
        ELSE [cleared EXCEPT !.mainProcess = ProcessStop(@, FALSE),
                             !.returnProcess = ProcessStop(@, FALSE)]

TeardownKeepsFeed(s, t) ==
    [s EXCEPT
        !.timeout = IF @ = "armed" THEN "spent" ELSE @,
        !.socket = "closed",
        !.quiet = 0,
        !.closes = @ + 1,
        !.mainProcess = ProcessStop(@, "mainProcess" \in t),
        !.returnProcess = IF @.state = "none" THEN @
                          ELSE ProcessStop(@, "returnProcess" \in t)]

Teardown(s, t) ==
    [s EXCEPT
        !.timeout = IF @ = "armed" THEN "spent" ELSE @,
        !.feedInterval = IF @ = "armed" THEN "spent" ELSE @,
        !.socket = "closed",
        !.quiet = 0,
        !.closes = @ + 1,
        !.mainProcess = ProcessStop(@, "mainProcess" \in t),
        !.returnProcess = IF @.state = "none" THEN @
                          ELSE ProcessStop(@, "returnProcess" \in t)]

StopStreamSessionsAll(ss, og, sid, t) ==
    IF sid \in DOMAIN og
    THEN [o \in DOMAIN ss |->
             IF \E x \in DOMAIN og : og[x] = o THEN Teardown(ss[o], t)
             ELSE ss[o]]
    ELSE ss

StopStreamSessions(ss, og, sid, t) ==
    IF sid \in DOMAIN og
    THEN [ss EXCEPT ![og[sid]] = Teardown(@, t)]
    ELSE ss

KeepsEntry(og, sid) == og

StopStreamOngoing(og, sid) == Without(og, sid)

\* The errors stopStream catches and logs.
Caught(ss, og, sid, t) ==
    IF sid \in DOMAIN og
    THEN {x \in t : x = "socket" \/ ss[og[sid]][x].state # "none"}
    ELSE {}

\* ---------------------------------------------------- determineResolution
Undefined == -1         \* a maxWidth or maxHeight that is not configured

\* A filter of a chain: a configured one by its name, or one the function
\* builds, "scale" with the bounds it is given (0: the input's own size)
\* and "even", the rounding to even dimensions.
Filter(name) == [name |-> name, width |-> 0, height |-> 0]

NoFilter == Filter("undefined")

Scale(width, height) ==
    [name |-> "scale", width |-> IF width > 0 THEN width ELSE 0,
     height |-> IF height > 0 THEN height ELSE 0]

\* filters.indexOf("none"), counted from 1; 0 where JavaScript gives -1.
IndexOfNone(filters) ==
    IF \E i \in DOMAIN filters : filters[i].name = "none"
    THEN CHOOSE i \in DOMAIN filters :
            /\ filters[i].name = "none"
            /\ \A j \in 1 .. i - 1 : filters[j].name # "none"
    ELSE 0

\* filters.splice(i, 1)
Splice(filters, i) ==
    [j \in 1 .. Len(filters) - 1 |->
        IF j < i THEN filters[j] ELSE filters[j + 1]]

DetermineResolutionAlwaysClamps(cfg, request, isSnapshot) ==
    LET width == IF cfg.maxWidth # Undefined
                       /\ (cfg.forceMax \/ request.width > cfg.maxWidth)
                 THEN cfg.maxWidth ELSE request.width
        height == IF cfg.maxHeight # Undefined
                       /\ (cfg.forceMax \/ request.height > cfg.maxHeight)
                  THEN cfg.maxHeight ELSE request.height
    IN  [width |-> width, height |-> height, snapshotFilter |-> <<>>,
         resizeFilter |-> Scale(width, height), videoFilter |-> <<>>]

DetermineResolutionAlwaysEven(cfg, request, isSnapshot) ==
    LET width == IF ~isSnapshot /\ cfg.maxWidth # Undefined
                       /\ (cfg.forceMax \/ request.width > cfg.maxWidth)
                 THEN cfg.maxWidth ELSE request.width
        height == IF ~isSnapshot /\ cfg.maxHeight # Undefined
                       /\ (cfg.forceMax \/ request.height > cfg.maxHeight)
                  THEN cfg.maxHeight ELSE request.height
        noneFilter == IndexOfNone(cfg.videoFilter)
        filters == IF noneFilter > 0 THEN Splice(cfg.videoFilter, noneFilter)
                   ELSE cfg.videoFilter
        resized == noneFilter = 0 /\ (width > 0 \/ height > 0)
        resizeFilter == IF resized THEN Scale(width, height) ELSE NoFilter
        chain == IF resized THEN filters \o <<resizeFilter, Filter("even")>>
                 ELSE filters \o <<Filter("even")>>
    IN  [width |-> width, height |-> height,
         snapshotFilter |-> filters,
         resizeFilter |-> resizeFilter,
         videoFilter |-> chain]

DetermineResolution(cfg, request, isSnapshot) ==
    LET width == IF ~isSnapshot /\ cfg.maxWidth # Undefined
                       /\ (cfg.forceMax \/ request.width > cfg.maxWidth)
                 THEN cfg.maxWidth ELSE request.width
        height == IF ~isSnapshot /\ cfg.maxHeight # Undefined
                       /\ (cfg.forceMax \/ request.height > cfg.maxHeight)
                  THEN cfg.maxHeight ELSE request.height
        noneFilter == IndexOfNone(cfg.videoFilter)
        filters == IF noneFilter > 0 THEN Splice(cfg.videoFilter, noneFilter)
                   ELSE cfg.videoFilter
        resized == noneFilter = 0 /\ (width > 0 \/ height > 0)
        resizeFilter == IF resized THEN Scale(width, height) ELSE NoFilter
        chain == IF resized THEN filters \o <<resizeFilter, Filter("even")>>
                 ELSE filters
    IN  [width |-> width, height |-> height,
         snapshotFilter |-> filters,
         resizeFilter |-> resizeFilter,
         videoFilter |-> chain]

\* The videoConfig CameraAccessories hands to the delegate.
Configured ==
    [maxWidth |-> 1280, maxHeight |-> 720, forceMax |-> TRUE,
     videoFilter |-> <<>>, audio |-> FALSE]

NotPlanned ==
    [planned |-> FALSE, request |-> [width |-> 0, height |-> 0],
     isSnapshot |-> FALSE,
     info |-> [width |-> 0, height |-> 0, snapshotFilter |-> <<>>,
               resizeFilter |-> NoFilter, videoFilter |-> <<>>]]

\* ------------------------------------------------------------------- Init
\* The delegate as constructed, with or without a return-audio target.
Delegate(target, config) ==
    /\ videoConfig = config
    /\ resolution = NotPlanned
    /\ returnAudioTarget = target
    /\ pendingSessions = {}
    /\ ongoingSessions = <<>>
    /\ sessions = <<>>
    /\ prepares = [sid \in AllIds |->
                      [videoReturnPort |-> 0, audioReturnPort |-> 0]]
    /\ unprepared = AllIds
    /\ consumed = {}
    /\ last = Event("init", 0)
    /\ alternativeSnapshot = FALSE
    /\ snapshotPromise = 0
    /\ promises = <<>>
    /\ requests = <<>>
    /\ context = [motionOnCamera |-> FALSE, motionTimer |-> 0,
                  visitorInfo |-> 0]
    /\ motionTimers = <<>>
    /\ visitors = <<>>
    /\ prepareCalls = <<>>
    /\ sessionInfos = <<>>

\* new Client(log, config, credentials): no handler, not logged in, not
\* refreshing, no reconnection enqueued.  `intervals` and `timeouts` count
\* the timers of the client that are armed, `attempts` the calls of
\* handler.handle().
NewClient ==
    [handler |-> FALSE, isLoggedIn |-> FALSE, isRefreshing |-> FALSE,
     enqueuedEstablishment |-> FALSE, intervals |-> 0, timeouts |-> 0,
     attempts |-> 0]

\* No SemanticVersion has been created.
NoVersions == [of |-> <<>>, this |-> 0, spec |-> 0, newer |-> FALSE]

\* The plugin as loaded: the delegate, the client, the semaphore file left
\* by the UI server or not, and the versions at hand.
Loaded(target, config, locked, known) ==
    /\ Delegate(target, config)
    /\ client = NewClient
    /\ semaphore = locked
    /\ versions = known

ConstructedWith(target, config) == Loaded(target, config, FALSE, NoVersions)

Constructed(target) == ConstructedWith(target, Configured)

\* An 'error' event of a failed spawn is queued with process.nextTick: it
\* runs before any timer, socket or hub request is served.
NextTickPending ==
    \E o \in Refs, w \in Which : sessions[o][w].state = "spawnfail"

\* ---------------------------------------------------------- prepareStream
InFlight ==
    LET Sum[n \in 0 .. MoreSessionIds] ==
            IF n = 0 THEN 0
            ELSE Sum[n - 1] + prepares[n].videoReturnPort
                            + prepares[n].audioReturnPort
    IN  Sum[MoreSessionIds]

\* The call runs up to its first `await pickPort(options)`.
PrepareStream(sid) ==
    /\ ~NextTickPending
    /\ InFlight < MaxPrepares
    /\ prepares' = [prepares EXCEPT ![sid].videoReturnPort = @ + 1]
    /\ last' = Event("prepareStream", sid)
    /\ UNCHANGED <<returnAudioTarget, pendingSessions,
                   ongoingSessions,                    sessions>>

\* The first pickPort settles: on to the second await, or the call rejects.
PickVideoReturnPort(sid, ok) ==
    /\ ~NextTickPending
    /\ prepares[sid].videoReturnPort > 0
    /\ IF ok
       THEN /\ prepares' = [prepares EXCEPT ![sid].videoReturnPort = @ - 1,
                                            ![sid].audioReturnPort = @ + 1]
            /\ last' = Event("pickPort", sid)
       ELSE /\ prepares' = [prepares EXCEPT ![sid].videoReturnPort = @ - 1]
            /\ last' = Event("pickPortFailed", sid)
    /\ UNCHANGED <<returnAudioTarget, pendingSessions,
                   ongoingSessions,                    sessions>>

\* The second pickPort settles: the rest of prepareStream runs, or the call
\* rejects.
PickAudioReturnPort(sid, ok) ==
    /\ ~NextTickPending
    /\ prepares[sid].audioReturnPort > 0
    /\ prepares' = [prepares EXCEPT ![sid].audioReturnPort = @ - 1]
    /\ IF ok
       THEN /\ pendingSessions' = pendingSessions \cup {sid}
            /\ last' = [Event("prepared", sid) EXCEPT !.callback = "ok"]
       ELSE /\ pendingSessions' = pendingSessions
            /\ last' = Event("pickPortFailed", sid)
    /\ UNCHANGED <<returnAudioTarget, ongoingSessions, sessions>>

\* ------------------------------------------------------------ startStream
\* request.audio.codec: the codecs with an audio branch, and one without.
AudioCodecs == {"OPUS", "AAC-eld", "PCMA"}

\* The options of the video output, up to its srtp:// target.
VideoArgs ==
    <<"-i pipe:", "-an -sn -dn", "-codec:v", "-pix_fmt yuv420p",
      "-color_range mpeg", "-f rawvideo", "-payload_type video",
      "-ssrc video", "-f rtp", "-srtp_out_suite", "-srtp_out_params video",
      "srtp video">>

\* The options of the audio output, for OPUS and for AAC-eld.
AudioArgs(codec) ==
    <<"-vn -sn -dn">>
    \o (IF codec = "OPUS"
        THEN <<"-codec:a libopus", "-application lowdelay">>
        ELSE <<"-codec:a libfdk_aac", "-profile:a aac_eld">>)
    \o <<"-flags +global_header", "-f null", "-ar", "-b:a", "-ac",
         "-payload_type audio", "-ssrc audio", "-f rtp", "-srtp_out_suite",
         "-srtp_out_params audio", "srtp audio">>

FFmpegArgsAnyCodec(cfg, codec) ==
    VideoArgs
    \o (IF cfg.audio THEN AudioArgs(codec) ELSE <<>>)
    \o <<"-loglevel level", "-progress pipe:1">>

\* The argument list of the main process.  An audio codec that is neither
\* OPUS nor AAC-eld is logged and adds nothing.
FFmpegArgs(cfg, codec) ==
    VideoArgs
    \o (IF cfg.audio /\ codec \in {"OPUS", "AAC-eld"}
        THEN AudioArgs(codec) ELSE <<>>)
    \o <<"-loglevel level", "-progress pipe:1">>

NewSession(sid, mainOk, returnOk) ==
    [sid           |-> sid,
     socket        |-> "open",
     closes        |-> 0,
     timeout       |-> "undef",
     strayTimeouts |-> 0,
     quiet         |-> 0,
     datagrams     |-> FALSE,
     feedInterval  |-> "armed",
     feeding       |-> 0,
     mainProcess   |-> NewProcess(mainOk, TRUE),
     returnProcess |-> IF returnAudioTarget
                       THEN NewProcess(returnOk, FALSE)
                       ELSE NoProcess]

StartStreamUnchecked(sid, codec, mainOk, returnOk, limit) ==
    /\ ~NextTickPending
    /\ Len(sessions) < limit
    /\ returnAudioTarget \/ returnOk
    /\ sessions' = Append(sessions, NewSession(sid, mainOk, returnOk))
    /\ ongoingSessions' = With(ongoingSessions, sid, Len(sessions) + 1)
    /\ pendingSessions' = pendingSessions \ {sid}
    /\ last' = [Event("startStream", sid)
                   EXCEPT !.codec = codec,
                          !.args = FFmpegArgs(videoConfig, codec)]
    /\ UNCHANGED <<returnAudioTarget, prepares>>

StartStreamKeepsPending(sid, codec, mainOk, returnOk, limit) ==
    /\ ~NextTickPending
    /\ IF sid \in pendingSessions
       THEN /\ Len(sessions) < limit
            /\ returnAudioTarget \/ returnOk
            /\ sessions' = Append(sessions, NewSession(sid, mainOk, returnOk))
            /\ ongoingSessions' = With(ongoingSessions, sid, Len(sessions) + 1)
            /\ last' = [Event("startStream", sid)
                           EXCEPT !.codec = codec,
                                  !.args = FFmpegArgs(videoConfig, codec)]
       ELSE /\ mainOk /\ returnOk
            /\ last' = [Event("startStreamNotFound", sid)
                           EXCEPT !.callback = "error"]
            /\ UNCHANGED <<sessions, ongoingSessions>>
    /\ UNCHANGED <<returnAudioTarget, pendingSessions, prepares>>

StartStream(sid, codec, mainOk, returnOk, limit) ==
    /\ ~NextTickPending
    /\ IF sid \in pendingSessions
       THEN /\ Len(sessions) < limit
            /\ returnAudioTarget \/ returnOk
            /\ sessions' = Append(sessions, NewSession(sid, mainOk, returnOk))
            /\ ongoingSessions' = With(ongoingSessions, sid, Len(sessions) + 1)
            /\ pendingSessions' = pendingSessions \ {sid}
            /\ last' = [Event("startStream", sid)
                           EXCEPT !.codec = codec,
                                  !.args = FFmpegArgs(videoConfig, codec)]
       ELSE /\ mainOk /\ returnOk
            /\ last' = [Event("startStreamNotFound", sid)
                           EXCEPT !.callback = "error"]
            /\ UNCHANGED <<sessions, ongoingSessions, pendingSessions>>
    /\ UNCHANGED <<returnAudioTarget, prepares>>

\* ------------------------------------------- handleStreamRequest STOP
StopRequestForgets(sid, t) ==
    /\ ~NextTickPending
    /\ t = Caught(sessions, ongoingSessions, sid, t)
    /\ sessions' = StopStreamSessions(sessions, ongoingSessions, sid, t)
    /\ ongoingSessions' = StopStreamOngoing(ongoingSessions, sid)
    /\ pendingSessions' = pendingSessions \ {sid}
    /\ last' = [Event("stop", sid) EXCEPT !.callback = "ok",
                                          !.stopped = TRUE, !.caught = t]
    /\ UNCHANGED <<returnAudioTarget, prepares>>

StopRequest(sid, t) ==
    /\ ~NextTickPending
    /\ t = Caught(sessions, ongoingSessions, sid, t)
    /\ sessions' = StopStreamSessions(sessions, ongoingSessions, sid, t)
    /\ ongoingSessions' = StopStreamOngoing(ongoingSessions, sid)
    /\ last' = [Event("stop", sid) EXCEPT !.callback = "ok",
                                          !.stopped = TRUE, !.caught = t]
    /\ UNCHANGED <<returnAudioTarget, pendingSessions, prepares>>

\* ------------------------------------- handleStreamRequest RECONFIGURE
ReconfigureStops(sid) ==
    /\ ~NextTickPending
    /\ sessions' = StopStreamSessions(sessions, ongoingSessions, sid, {})
    /\ ongoingSessions' = StopStreamOngoing(ongoingSessions, sid)
    /\ last' = [Event("reconfigure", sid) EXCEPT !.callback = "ok"]
    /\ UNCHANGED <<returnAudioTarget, pendingSessions, prepares>>

Reconfigure(sid) ==
    /\ ~NextTickPending
    /\ last' = [Event("reconfigure", sid) EXCEPT !.callback = "ok"]
    /\ UNCHANGED <<returnAudioTarget, pendingSessions,
                   ongoingSessions,                    sessions, prepares>>

\* ----------------------------------------------- liveness socket handlers
\* socket.on("message"): cancel the timer the field holds, arm a new one.
\* `strayTimeouts` counts armed timers the field no longer holds.
OnMessageNoCancel(s) ==
    [s EXCEPT !.timeout = "armed", !.quiet = 0, !.datagrams = TRUE,
              !.strayTimeouts = IF s.timeout = "armed" THEN @ + 1 ELSE @]

OnMessage(s) ==
    [s EXCEPT !.timeout = "armed", !.quiet = 0, !.datagrams = TRUE]

SocketMessage(o) ==
    /\ ~NextTickPending
    /\ sessions[o].socket = "open"
    /\ sessions' = [sessions EXCEPT ![o] = OnMessage(@)]
    /\ last' = Event("message", sessions[o].sid)
    /\ UNCHANGED <<returnAudioTarget, pendingSessions,
                   ongoingSessions,                    prepares>>

\* socket.on("error"): stopStream(request.sessionID).
SocketError(o, t) ==
    /\ ~NextTickPending
    /\ sessions[o].socket = "open"
    /\ LET sid == sessions[o].sid IN
       /\ t = Caught(sessions, ongoingSessions, sid, t)
       /\ sessions' = StopStreamSessions(sessions, ongoingSessions, sid, t)
       /\ ongoingSessions' = StopStreamOngoing(ongoingSessions, sid)
       /\ last' = [Event("socketError", sid) EXCEPT !.stopped = TRUE,
                                                    !.caught = t,
                                                    !.ref = o]
    /\ UNCHANGED <<returnAudioTarget, pendingSessions, prepares>>

\* One clock tick on a listening socket during which no datagram arrives.
\* A timer that is due fires before the clock moves on.
TimerDue(s) ==
    (s.timeout = "armed" \/ s.strayTimeouts > 0) /\ s.quiet >= RtcpWindow

Tick(o) ==
    /\ ~NextTickPending
    /\ sessions[o].socket = "open"
    /\ sessions[o].quiet <= RtcpWindow
    /\ ~TimerDue(sessions[o])
    /\ sessions' = [sessions EXCEPT ![o].quiet = @ + 1]
    /\ last' = Event("tick", sessions[o].sid)
    /\ UNCHANGED <<returnAudioTarget, pendingSessions,
                   ongoingSessions,                    prepares>>

\* The inactivity timer expires: forceStopStreamingSession, then stopStream.
InactivityTimeout(o, t) ==
    /\ ~NextTickPending
    /\ sessions[o].timeout = "armed"
    /\ sessions[o].quiet >= RtcpWindow
    /\ LET sid == sessions[o].sid
           fired == [sessions EXCEPT ![o].timeout = "spent"]
       IN
       /\ t = Caught(fired, ongoingSessions, sid, t)
       /\ sessions' = StopStreamSessions(fired, ongoingSessions, sid, t)
       /\ ongoingSessions' = StopStreamOngoing(ongoingSessions, sid)
       /\ last' = [Event("inactive", sid) EXCEPT !.forced = TRUE,
                                                 !.stopped = TRUE,
                                                 !.caught = t]
    /\ UNCHANGED <<returnAudioTarget, pendingSessions, prepares>>

\* setInterval callback of the feed timer: write the current image.
FeedTick(o) ==
    /\ ~NextTickPending
    /\ sessions[o].feedInterval = "armed"
    /\ last' = Event("feed", sessions[o].sid)
    /\ UNCHANGED <<returnAudioTarget, pendingSessions,
                   ongoingSessions,                    sessions, prepares>>

\* The same callback when neither the visitor's picture nor the idle image
\* is at hand: createAlternativeSnapshot requests the download and the
\* callback is suspended until it ends.  `feeding` counts the callbacks of
\* the session that are suspended so.
FeedAwait(o) ==
    /\ ~NextTickPending
    /\ sessions[o].feedInterval = "armed"
    /\ context.visitorInfo = 0
    /\ ~alternativeSnapshot
    /\ sessions[o].feeding < MaxFeeds
    /\ sessions' = [sessions EXCEPT ![o].feeding = @ + 1]
    /\ last' = Event("feedAwait", sessions[o].sid)
    /\ UNCHANGED <<returnAudioTarget, pendingSessions, ongoingSessions,
                   prepares>>

\* The download ends.  When it ended well the callback stores the image and
\* resumes at `activeSession.mainProcess?.stdin.write(buffer)`; stdin has
\* been ended if stop() has armed its timer.  A failed download rejects the
\* promise of the callback.
OnFeedResume(s, ok) ==
    [s EXCEPT !.feeding = @ - 1,
              !.mainProcess.wroteAfterEnd =
                  @ \/ (ok /\ s.mainProcess.killTimeout # "undef")]

FeedResume(o, ok) ==
    /\ ~NextTickPending
    /\ sessions[o].feeding > 0
    /\ sessions' = [sessions EXCEPT ![o] = OnFeedResume(@, ok)]
    /\ alternativeSnapshot' = (alternativeSnapshot \/ ok)
    /\ last' = [Event("feedResume", sessions[o].sid) EXCEPT
                   !.callback = IF ok THEN "none" ELSE "error"]
    /\ UNCHANGED <<returnAudioTarget, pendingSessions, ongoingSessions,
                   prepares, unprepared, consumed, snapshotPromise, promises,
                   requests, motionVars, plannerVars, aside>>

\* ------------------------------------------------- FFmpegProcess handlers
\* stderr.on("line")
OnStderrLine(p) ==
    IF p.callback
    THEN [p EXCEPT !.readyOk = @ + 1, !.callback = FALSE]
    ELSE p

StderrLine(o, w) ==
    /\ ~NextTickPending
    /\ sessions[o][w].state \in {"running", "exited"}
    /\ sessions' = [sessions EXCEPT ![o][w] = OnStderrLine(@)]
    /\ last' = [Event("stderr", sessions[o].sid) EXCEPT
                   !.callback = IF sessions[o][w].callback THEN "ok"
                                ELSE "none"]
    /\ UNCHANGED <<returnAudioTarget, pendingSessions,
                   ongoingSessions,                    prepares>>

\* process.stdout.on("data") with a progress block whose frame > 0.  Only
\* the main process is started with -progress.
StdoutProgress(o) ==
    /\ ~NextTickPending
    /\ sessions[o].mainProcess.state = "running"
    /\ ~sessions[o].mainProcess.started
    /\ sessions' = [sessions EXCEPT ![o].mainProcess.started = TRUE]
    /\ last' = Event("progress", sessions[o].sid)
    /\ UNCHANGED <<returnAudioTarget, pendingSessions,
                   ongoingSessions,                    prepares>>

\* process.on("error"): the spawn failed.
OnError(p) ==
    [p EXCEPT !.state = "failed",
              !.readyErr = IF p.callback THEN @ + 1 ELSE @]

ProcessErrorNoStop(o, w, t) ==
    /\ sessions[o][w].state = "spawnfail"
    /\ w = "returnProcess" => sessions[o].mainProcess.state # "spawnfail"
    /\ t = {}
    /\ sessions' = [sessions EXCEPT ![o][w] = OnError(@)]
    /\ ongoingSessions' = ongoingSessions
    /\ last' = [Event("processError", sessions[o].sid) EXCEPT
                   !.callback = IF sessions[o][w].callback THEN "error"
                                ELSE "none"]
    /\ UNCHANGED <<returnAudioTarget, pendingSessions, prepares>>

ProcessError(o, w, t) ==
    /\ sessions[o][w].state = "spawnfail"
    /\ w = "returnProcess" => sessions[o].mainProcess.state # "spawnfail"
    /\ LET sid == sessions[o].sid
           handled == [sessions EXCEPT ![o][w] = OnError(@)]
       IN
       /\ t = Caught(handled, ongoingSessions, sid, t)
       /\ sessions' = StopStreamSessions(handled, ongoingSessions, sid, t)
       /\ ongoingSessions' = StopStreamOngoing(ongoingSessions, sid)
       /\ last' = [Event("processError", sid) EXCEPT
                      !.callback = IF sessions[o][w].callback THEN "error"
                                   ELSE "none",
                      !.stopped = TRUE, !.caught = t]
    /\ UNCHANGED <<returnAudioTarget, pendingSessions, prepares>>

\* process.on("exit"): the three branches of the handler.
ExitExpected(p, code) == p.killTimeout # "undef" /\ code = 0

ExitIgnored(p, code) ==
    ~ExitExpected(p, code) /\ code \in {Signalled, 255}

ExitError(p, code) == ~ExitExpected(p, code) /\ ~ExitIgnored(p, code)

OnExitKeepsTimer(p, code) ==
    [p EXCEPT !.state = "exited",
              !.readyErr = IF ExitError(p, code) /\ ~p.started /\ p.callback
                           THEN @ + 1 ELSE @]

OnExit(p, code) ==
    [p EXCEPT !.state = "exited",
              !.killTimeout = IF @ = "armed" THEN "spent" ELSE @,
              !.readyErr = IF ExitError(p, code) /\ ~p.started /\ p.callback
                           THEN @ + 1 ELSE @]

ProcessExit(o, w, code, t) ==
    /\ ~NextTickPending
    /\ sessions[o][w].state = "running"
    /\ LET sid == sessions[o].sid
           p == sessions[o][w]
           handled == [sessions EXCEPT ![o][w] = OnExit(@, code)]
           report == ~p.started /\ p.callback
       IN
       IF ExitError(p, code)
       THEN /\ t = Caught(handled, ongoingSessions, sid, t)
            /\ sessions' = StopStreamSessions(handled, ongoingSessions, sid, t)
            /\ ongoingSessions' = StopStreamOngoing(ongoingSessions, sid)
            /\ last' = [Event("exitError", sid) EXCEPT
                           !.code = code,
                           !.callback = IF report THEN "error" ELSE "none",
                           !.forced = ~report,
                           !.stopped = TRUE, !.caught = t]
       ELSE /\ t = {}
            /\ sessions' = handled
            /\ ongoingSessions' = ongoingSessions
            /\ last' = [Event(IF ExitExpected(p, code) THEN "exitExpected"
                              ELSE "exitIgnored", sid) EXCEPT !.code = code]
    /\ UNCHANGED <<returnAudioTarget, pendingSessions, prepares>>

\* The grace timer of stop() expires: stdin.destroy(), process.kill().
OnKillTimeout(p) ==
    [p EXCEPT !.killTimeout = "spent",
              !.killed = @ \/ p.state = "running"]

KillTimeout(o, w) ==
    /\ ~NextTickPending
    /\ HasProcess(o, w)
    /\ sessions[o][w].killTimeout = "armed"
    /\ sessions' = [sessions EXCEPT ![o][w] = OnKillTimeout(@)]
    /\ last' = Event("killTimeout", sessions[o].sid)
    /\ UNCHANGED <<returnAudioTarget, pendingSessions,
                   ongoingSessions,                    prepares>>

\* History of prepare and stop, read off the event just recorded, when it
\* is kept.
History(kept) ==
    /\ unprepared' = IF kept /\ last'.op = "prepared"
                     THEN unprepared \ {last'.sid}
                     ELSE IF kept /\ last'.stopped
                     THEN unprepared \cup {last'.sid}
                     ELSE unprepared
    /\ consumed' = IF kept /\ last'.op = "prepared"
                   THEN consumed \ {last'.sid}
                   ELSE IF kept /\ last'.op = "startStream"
                   THEN consumed \cup {last'.sid}
                   ELSE consumed

\* What a streaming handler leaves alone: the snapshot pipeline and the
\* motion state of the accessory.
Rest(kept) ==
    /\ History(kept)
    /\ UNCHANGED <<snapshotVars, motionVars, plannerVars, aside>>

\* One step of the delegate: the hub uses the session ids in `ids`, the
\* guarded calls of stopStream fail as the sets in T say, at most `limit`
\* ActiveSessions are created, and the history is kept or not.
Step(ids, T, limit, kept) ==
    \/ \E sid \in ids : PrepareStream(sid) /\ Rest(kept)
    \/ \E sid \in ids, ok \in BOOLEAN :
          PickVideoReturnPort(sid, ok) /\ Rest(kept)
    \/ \E sid \in ids, ok \in BOOLEAN :
          PickAudioReturnPort(sid, ok) /\ Rest(kept)
    \/ \E sid \in ids, codec \in AudioCodecs, mainOk, returnOk \in BOOLEAN :
          StartStream(sid, codec, mainOk, returnOk, limit) /\ Rest(kept)
    \/ \E sid \in ids, t \in T : StopRequest(sid, t) /\ Rest(kept)
    \/ \E sid \in ids : Reconfigure(sid) /\ Rest(kept)
    \/ \E o \in Refs : SocketMessage(o) /\ Rest(kept)
    \/ \E o \in Refs, t \in T : SocketError(o, t) /\ Rest(kept)
    \/ \E o \in Refs : Tick(o) /\ Rest(kept)
    \/ \E o \in Refs, t \in T : InactivityTimeout(o, t) /\ Rest(kept)
    \/ \E o \in Refs : FeedTick(o) /\ Rest(kept)
    \/ \E o \in Refs, w \in Which : StderrLine(o, w) /\ Rest(kept)
    \/ \E o \in Refs : StdoutProgress(o) /\ Rest(kept)
    \/ \E o \in Refs, w \in Which, t \in T : ProcessError(o, w, t) /\ Rest(kept)
    \/ \E o \in Refs, w \in Which, code \in ExitCodes, t \in T :
          ProcessExit(o, w, code, t) /\ Rest(kept)
    \/ \E o \in Refs, w \in Which : KillTimeout(o, w) /\ Rest(kept)

\* dgram's close() throws only on a socket that is not running and
\* Writable.end() does not throw: as the code stands no guarded call fails.
\* CameraAccessories constructs the delegate without a return-audio target.
Init == Constructed(FALSE)

Next == Step(SessionIds, {{}}, MaxStarts, FALSE)

Spec == Init /\ [][Next]_vars

\* The delegate under either configuration, followed through one
\* ActiveSession, the guarded calls of stopStream free to throw, with the
\* history of prepare and stop kept.
InitOne == \E target \in BOOLEAN : Constructed(target)

NextOne == Step(SessionIds, SUBSET Guarded, 1, TRUE)

SpecOne == InitOne /\ [][NextOne]_vars

\* The delegate as CameraAccessories constructs it, serving more than one
\* session id, followed through one ActiveSession with the history kept.
NextIds == Step(AllIds, {{}}, 1, TRUE)

SpecIds == Init /\ [][NextIds]_vars

\* The delegate constructed with audio enabled or not, followed through one
\* ActiveSession.
InitAudio ==
    \E audio \in BOOLEAN :
        ConstructedWith(FALSE, [Configured EXCEPT !.audio = audio])

NextAudio == Step(SessionIds, {{}}, 1, FALSE)

SpecAudio == InitAudio /\ [][NextAudio]_vars

\* The delegate serving two session ids with up to MaxStarts ActiveSessions
\* whose processes spawn: the requests of the hub, the socket and timer
\* handlers, and the exits and grace timers of the processes.
NextPair ==
    \/ \E sid \in AllIds : PrepareStream(sid) /\ Rest(FALSE)
    \/ \E sid \in AllIds, ok \in BOOLEAN :
          PickVideoReturnPort(sid, ok) /\ Rest(FALSE)
    \/ \E sid \in AllIds, ok \in BOOLEAN :
          PickAudioReturnPort(sid, ok) /\ Rest(FALSE)
    \/ \E sid \in AllIds :
          StartStream(sid, "AAC-eld", TRUE, TRUE, MaxStarts) /\ Rest(FALSE)
    \/ \E sid \in AllIds : StopRequest(sid, {}) /\ Rest(FALSE)
    \/ \E sid \in AllIds : Reconfigure(sid) /\ Rest(FALSE)
    \/ \E o \in Refs : SocketMessage(o) /\ Rest(FALSE)
    \/ \E o \in Refs : SocketError(o, {}) /\ Rest(FALSE)
    \/ \E o \in Refs : Tick(o) /\ Rest(FALSE)
    \/ \E o \in Refs : InactivityTimeout(o, {}) /\ Rest(FALSE)
    \/ \E o \in Refs, code \in ExitCodes :
          ProcessExit(o, "mainProcess", code, {}) /\ Rest(FALSE)
    \/ \E o \in Refs : KillTimeout(o, "mainProcess") /\ Rest(FALSE)

SpecPair == Init /\ [][NextPair]_vars

\* The handlers the event loop is bound to run once their event is queued:
\* the 'error' of a failed spawn, a timer that is armed, the completion of
\* pickPort.  What a running process does, and when, is left to it.
StreamSettles ==
    \/ \E o \in Refs, w \in Which : ProcessError(o, w, {}) /\ Rest(FALSE)
    \/ \E o \in Refs, w \in Which : KillTimeout(o, w) /\ Rest(FALSE)
    \/ \E o \in Refs : InactivityTimeout(o, {}) /\ Rest(FALSE)
    \/ \E sid \in SessionIds, ok \in BOOLEAN :
          PickVideoReturnPort(sid, ok) /\ Rest(FALSE)
    \/ \E sid \in SessionIds, ok \in BOOLEAN :
          PickAudioReturnPort(sid, ok) /\ Rest(FALSE)

SpecAudioFair == SpecAudio /\ WF_vars(StreamSettles)

\* The delegate as CameraAccessories constructs it, followed through one
\* ActiveSession whose feed callbacks may find no image at hand.
NextFeed ==
    \/ Step(SessionIds, {{}}, 1, FALSE)
    \/ \E o \in Refs : FeedAwait(o) /\ Rest(FALSE)
    \/ \E o \in Refs, ok \in BOOLEAN : FeedResume(o, ok)

SpecFeed == Init /\ [][NextFeed]_vars

\* ------------------------------------------- prepareStream, call by call
MaxCalls == 2           \* prepareStream calls in one behaviour

Ports == 1 .. 2 * MaxCalls

SSRCs == {1, 2}

PrepareCalls == DOMAIN prepareCalls

\* Two requests of the hub for a session id, with different keys and salts.
PrepareRequests ==
    {[sessionID |-> sid,
      video |-> [srtp_key |-> k, srtp_salt |-> k + 10],
      audio |-> [srtp_key |-> k + 20, srtp_salt |-> k + 30]] :
         sid \in AllIds, k \in {1, 2}}

NoResponse == [port |-> 0, ssrc |-> 0, srtp_key |-> 0, srtp_salt |-> 0]

\* Ports pickPort has handed out: it reserves each for reserveTimeout.
Reserved ==
    {prepareCalls[c].videoReturnPort : c \in PrepareCalls}
        \cup {prepareCalls[c].audioReturnPort : c \in PrepareCalls}

\* The call runs up to its first `await pickPort(options)`.
PrepareStreamCall(request) ==
    /\ Len(prepareCalls) < MaxCalls
    /\ prepareCalls' = Append(prepareCalls,
                              [request |-> request, stage |-> "video",
                               videoReturnPort |-> 0, videoSSRC |-> 0,
                               audioReturnPort |-> 0, audioSSRC |-> 0,
                               callbacks |-> 0,
                               response |-> [video |-> NoResponse,
                                             audio |-> NoResponse]])
    /\ last' = Event("prepareStream", request.sessionID)
    /\ UNCHANGED <<sessionInfos, streamVars, snapshotVars, motionVars,
                   plannerVars, clientVars, versions>>

\* Buffer.concat([srtp_key, srtp_salt])
Concat(key, salt) == <<key, salt>>

SessionInfoOf(call, audioReturnPort, audioSSRC) ==
    [videoReturnPort |-> call.videoReturnPort,
     videoSRTP       |-> Concat(call.request.video.srtp_key,
                                call.request.video.srtp_salt),
     videoSSRC       |-> call.videoSSRC,
     audioReturnPort |-> audioReturnPort,
     audioSRTP       |-> Concat(call.request.audio.srtp_key,
                                call.request.audio.srtp_salt),
     audioSSRC       |-> audioSSRC]

ResponseOf(call, audioReturnPort, audioSSRC) ==
    [video |-> [port      |-> call.videoReturnPort,
                ssrc      |-> call.videoSSRC,
                srtp_key  |-> call.request.video.srtp_key,
                srtp_salt |-> call.request.video.srtp_salt],
     audio |-> [port      |-> audioReturnPort,
                ssrc      |-> audioSSRC,
                srtp_key  |-> call.request.audio.srtp_key,
                srtp_salt |-> call.request.audio.srtp_salt]]

PickPortStoresAnyway(c, ok, port, ssrc) ==
    /\ prepareCalls[c].stage \in {"video", "audio"}
    /\ port \notin Reserved
    /\ LET call == prepareCalls[c]
           sid == call.request.sessionID
       IN
       IF ~ok
       THEN /\ prepareCalls' = [prepareCalls EXCEPT ![c].stage = "rejected"]
            /\ sessionInfos' = With(sessionInfos, sid,
                                    SessionInfoOf(call, 0, 0))
            /\ pendingSessions' = pendingSessions \cup {sid}
            /\ last' = Event("pickPortFailed", sid)
       ELSE IF call.stage = "video"
       THEN /\ prepareCalls' = [prepareCalls EXCEPT
                                   ![c].stage = "audio",
                                   ![c].videoReturnPort = port,
                                   ![c].videoSSRC = ssrc]
            /\ last' = Event("pickPort", sid)
            /\ UNCHANGED <<sessionInfos, pendingSessions>>
       ELSE /\ prepareCalls' = [prepareCalls EXCEPT
                                   ![c].stage = "done",
                                   ![c].audioReturnPort = port,
                                   ![c].audioSSRC = ssrc,
                                   ![c].callbacks = @ + 1,
                                   ![c].response = ResponseOf(call, port, ssrc)]
            /\ sessionInfos' = With(sessionInfos, sid,
                                    SessionInfoOf(call, port, ssrc))
            /\ pendingSessions' = pendingSessions \cup {sid}
            /\ last' = [Event("prepared", sid) EXCEPT !.callback = "ok"]
    /\ UNCHANGED <<returnAudioTarget, ongoingSessions, sessions, prepares,
                   unprepared, consumed, snapshotVars, motionVars,
                   plannerVars, clientVars, versions>>

\* A pickPort of the call settles, with a port that is not reserved, or
\* rejects.  After the first the call generates the video SSRC and awaits
\* the second; after the second it generates the audio SSRC, stores the
\* SessionInfo under the session id and invokes the callback.
PickPort(c, ok, port, ssrc) ==
    /\ prepareCalls[c].stage \in {"video", "audio"}
    /\ port \notin Reserved
    /\ LET call == prepareCalls[c]
           sid == call.request.sessionID
       IN
       IF ~ok
       THEN /\ prepareCalls' = [prepareCalls EXCEPT ![c].stage = "rejected"]
            /\ last' = Event("pickPortFailed", sid)
            /\ UNCHANGED <<sessionInfos, pendingSessions>>
       ELSE IF call.stage = "video"
       THEN /\ prepareCalls' = [prepareCalls EXCEPT
                                   ![c].stage = "audio",
                                   ![c].videoReturnPort = port,
                                   ![c].videoSSRC = ssrc]
            /\ last' = Event("pickPort", sid)
            /\ UNCHANGED <<sessionInfos, pendingSessions>>
       ELSE /\ prepareCalls' = [prepareCalls EXCEPT
                                   ![c].stage = "done",
                                   ![c].audioReturnPort = port,
                                   ![c].audioSSRC = ssrc,
                                   ![c].callbacks = @ + 1,
                                   ![c].response = ResponseOf(call, port, ssrc)]
            /\ sessionInfos' = With(sessionInfos, sid,
                                    SessionInfoOf(call, port, ssrc))
            /\ pendingSessions' = pendingSessions \cup {sid}
            /\ last' = [Event("prepared", sid) EXCEPT !.callback = "ok"]
    /\ UNCHANGED <<returnAudioTarget, ongoingSessions, sessions, prepares,
                   unprepared, consumed, snapshotVars, motionVars,
                   plannerVars, clientVars, versions>>

\* startStream for an id that has a PendingSession, which it deletes.
StartPrepared(sid, mainOk) ==
    /\ sid \in DOMAIN sessionInfos
    /\ StartStream(sid, "AAC-eld", mainOk, TRUE, 1)
    /\ sessionInfos' = Without(sessionInfos, sid)
    /\ UNCHANGED <<prepareCalls, unprepared, consumed, snapshotVars,
                   motionVars, plannerVars, clientVars, versions>>

NextPrepare ==
    \/ \E request \in PrepareRequests : PrepareStreamCall(request)
    \/ \E c \in PrepareCalls, ok \in BOOLEAN, port \in Ports, ssrc \in SSRCs :
          PickPort(c, ok, port, ssrc)
    \/ \E sid \in AllIds, mainOk \in BOOLEAN : StartPrepared(sid, mainOk)

SpecPrepare == Init /\ [][NextPrepare]_vars

\* ------------------------------------------------------ snapshot pipeline
MaxRequests == 3        \* handleSnapshotRequest calls in one behaviour
MaxFetches  == 2        \* fetchSnapshot calls in one behaviour

SnapshotExpiry == 3     \* seconds from 'close' to the clearing of the slot

Fetches == DOMAIN promises

Calls == DOMAIN requests

\* The promise fetchSnapshot creates, its executor suspended at
\* `await this.createAlternativeSnapshot()`: the idle image is at hand, or
\* its download has just been requested.  `age` is the time in seconds
\* since the 'close' event of the fetch process.
NewFetch ==
    [state    |-> "pending",
     cause    |-> "none",
     executor |-> IF alternativeSnapshot THEN "awaiting" ELSE "downloading",
     process  |-> "none",
     spawns   |-> 0,
     output   |-> FALSE,
     timer    |-> "undef",
     age      |-> 0]

\* The executor has its image and spawns ffmpeg.
SpawnFetch(f, ok) ==
    [f EXCEPT !.executor = "done",
              !.process = IF ok THEN "running" ELSE "spawnfail",
              !.spawns = @ + 1]

Settled(f) == promises[f].state # "pending"

\* Continuations of settled promises are microtasks, and the 'error' event
\* of a failed spawn is queued with process.nextTick: both run before any
\* timer, I/O event or hub request is served.
SnapshotJobsPending ==
    \/ \E f \in Fetches : promises[f].process = "spawnfail"
    \/ \E r \in Calls : \/ requests[r].resize = "spawnfail"
                        \/ /\ requests[r].stage = "fetch"
                           /\ Settled(requests[r].promise)
    \/ \E f \in Fetches : promises[f].executor = "awaiting"

NewRequest(f, cached) ==
    [stage     |-> "fetch",
     promise   |-> f,
     cached    |-> cached,
     resize    |-> "none",
     callbacks |-> 0,
     image     |-> FALSE,
     error     |-> FALSE]

\* handleSnapshotRequest up to its first await: take the promise in the
\* slot, or call fetchSnapshot.  `visitor`: context.visitorInfo holds a
\* snapshot, so the executor spawns ffmpeg at once.
HandleSnapshotRequestAlwaysFetches(visitor, ok) ==
    /\ ~SnapshotJobsPending
    /\ Len(requests) < MaxRequests
    /\ Len(promises) < MaxFetches
    /\ visitor \/ ok
    /\ promises' = Append(promises, IF visitor THEN SpawnFetch(NewFetch, ok)
                                    ELSE NewFetch)
    /\ snapshotPromise' = Len(promises) + 1
    /\ requests' = Append(requests, NewRequest(Len(promises) + 1, FALSE))
    /\ last' = Event("snapshotRequest", 0)
    /\ UNCHANGED <<alternativeSnapshot, elsewhere>>

HandleSnapshotRequest(visitor, ok) ==
    /\ ~SnapshotJobsPending
    /\ Len(requests) < MaxRequests
    /\ IF snapshotPromise # 0
       THEN /\ visitor /\ ok
            /\ requests' = Append(requests, NewRequest(snapshotPromise, TRUE))
            /\ UNCHANGED <<promises, snapshotPromise>>
       ELSE /\ Len(promises) < MaxFetches
            /\ visitor \/ ok
            /\ promises' = Append(promises,
                                  IF visitor THEN SpawnFetch(NewFetch, ok)
                                  ELSE NewFetch)
            /\ snapshotPromise' = Len(promises) + 1
            /\ requests' = Append(requests,
                                  NewRequest(Len(promises) + 1, FALSE))
    /\ last' = Event("snapshotRequest", 0)
    /\ UNCHANGED <<alternativeSnapshot, elsewhere>>

\* createAlternativeSnapshot as awaited by the executor: it returns the
\* image at hand, or its download ends, well (`ok`) or not.  A failed
\* download rejects the promise of the async executor, which nothing
\* observes: resolve and reject are never called.
CreateAlternativeSnapshot(f, ok, spawnOk) ==
    /\ promises[f].executor \in {"awaiting", "downloading"}
    /\ promises[f].executor = "awaiting" => ok
    /\ promises[f].executor = "downloading" => ~SnapshotJobsPending
    /\ IF ok
       THEN /\ alternativeSnapshot' = TRUE
            /\ promises' = [promises EXCEPT ![f] = SpawnFetch(@, spawnOk)]
       ELSE /\ spawnOk
            /\ alternativeSnapshot' = alternativeSnapshot
            /\ promises' = [promises EXCEPT ![f].executor = "failed"]
    /\ last' = Event("idleImage", 0)
    /\ UNCHANGED <<snapshotPromise, requests, elsewhere>>

\* The download the constructor starts, or one a feed timer starts, ends
\* well.
IdleImageLoaded ==
    /\ ~SnapshotJobsPending
    /\ ~alternativeSnapshot
    /\ alternativeSnapshot' = TRUE
    /\ last' = Event("idleImageLoaded", 0)
    /\ UNCHANGED <<snapshotPromise, promises, requests, elsewhere>>

\* ffmpeg.stdout.on("data") of the fetch process.
FetchData(f) ==
    /\ ~SnapshotJobsPending
    /\ promises[f].process = "running"
    /\ ~promises[f].output
    /\ promises' = [promises EXCEPT ![f].output = TRUE]
    /\ last' = Event("fetchData", 0)
    /\ UNCHANGED <<alternativeSnapshot, snapshotPromise, requests, elsewhere>>

\* ffmpeg.on("close"): settle the promise if it is not settled yet, and arm
\* the timer that clears the slot.
OnFetchCloseNoTimer(f) ==
    [f EXCEPT !.process = "closed",
              !.state = IF @ # "pending" THEN @
                        ELSE IF f.output THEN "resolved" ELSE "rejected",
              !.cause = IF f.state # "pending" \/ f.output THEN @
                        ELSE "empty"]

OnFetchClose(f) ==
    [f EXCEPT !.process = "closed",
              !.state = IF @ # "pending" THEN @
                        ELSE IF f.output THEN "resolved" ELSE "rejected",
              !.cause = IF f.state # "pending" \/ f.output THEN @
                        ELSE "empty",
              !.timer = "armed",
              !.age = 0]

FetchClose(f) ==
    /\ ~SnapshotJobsPending
    /\ promises[f].process = "running"
    /\ promises' = [promises EXCEPT ![f] = OnFetchClose(@)]
    /\ last' = Event("fetchClose", 0)
    /\ UNCHANGED <<alternativeSnapshot, snapshotPromise, requests, elsewhere>>

\* ffmpeg.on("error") of a fetch process that could not be spawned: reject;
\* the 'close' event follows the 'error' event at once.
FetchError(f) ==
    /\ promises[f].process = "spawnfail"
    /\ promises' = [promises EXCEPT
                       ![f] = OnFetchClose([@ EXCEPT !.state = "rejected",
                                                     !.cause = "spawn"])]
    /\ last' = Event("fetchError", 0)
    /\ UNCHANGED <<alternativeSnapshot, snapshotPromise, requests, elsewhere>>

\* One second passes.  The clock of a fetch runs from its 'close' event
\* until the expiry has been overrun; a timer that is due fires first.
ExpiryDue(f) == f.timer = "armed" /\ f.age >= SnapshotExpiry

Older(f) ==
    IF f.process = "closed" /\ f.age <= SnapshotExpiry
    THEN [f EXCEPT !.age = @ + 1]
    ELSE f

SnapshotTick ==
    /\ ~SnapshotJobsPending
    /\ \A f \in Fetches : ~ExpiryDue(promises[f])
    /\ \E f \in Fetches : Older(promises[f]) # promises[f]
    /\ promises' = [f \in Fetches |-> Older(promises[f])]
    /\ last' = Event("second", 0)
    /\ UNCHANGED <<alternativeSnapshot, snapshotPromise, requests, elsewhere>>

\* The timer armed at 'close' expires: this.snapshotPromise = undefined.
SnapshotExpire(f) ==
    /\ ~SnapshotJobsPending
    /\ ExpiryDue(promises[f])
    /\ promises' = [promises EXCEPT ![f].timer = "spent"]
    /\ snapshotPromise' = 0
    /\ last' = Event("expire", 0)
    /\ UNCHANGED <<alternativeSnapshot, requests, elsewhere>>

\* handleSnapshotRequest resumes after `await` of the fetch: resizeSnapshot
\* spawns ffmpeg, or the catch block calls callback().
OnFetchSettled(r, resolved, ok) ==
    IF resolved
    THEN [r EXCEPT !.stage = "resize",
                   !.resize = IF ok THEN "running" ELSE "spawnfail"]
    ELSE [r EXCEPT !.stage = "done", !.callbacks = @ + 1]

AwaitSnapshot(r, ok) ==
    /\ requests[r].stage = "fetch"
    /\ Settled(requests[r].promise)
    /\ LET resolved == promises[requests[r].promise].state = "resolved" IN
       /\ resolved \/ ok
       /\ requests' = [requests EXCEPT ![r] = OnFetchSettled(@, resolved, ok)]
    /\ last' = Event("awaitSnapshot", 0)
    /\ UNCHANGED <<alternativeSnapshot, snapshotPromise, promises, elsewhere>>

\* ffmpeg.on("error") of a resize process that could not be spawned: the
\* promise of resizeSnapshot rejects and the catch block calls callback().
ResizeError(r) ==
    /\ requests[r].resize = "spawnfail"
    /\ requests' = [requests EXCEPT ![r].resize = "closed",
                                    ![r].stage = "done",
                                    ![r].callbacks = @ + 1]
    /\ last' = Event("resizeError", 0)
    /\ UNCHANGED <<alternativeSnapshot, snapshotPromise, promises, elsewhere>>

\* ffmpeg.on("close") of the resize process: resolve(resizeBuffer), and
\* handleSnapshotRequest calls callback(undefined, resized).
ResizeClose(r) ==
    /\ ~SnapshotJobsPending
    /\ requests[r].resize = "running"
    /\ requests' = [requests EXCEPT ![r].resize = "closed",
                                    ![r].stage = "done",
                                    ![r].callbacks = @ + 1,
                                    ![r].image = TRUE]
    /\ last' = Event("resizeClose", 0)
    /\ UNCHANGED <<alternativeSnapshot, snapshotPromise, promises, elsewhere>>

\* The snapshot pipeline of one delegate.
NextSnapshot ==
    \/ \E visitor, ok \in BOOLEAN : HandleSnapshotRequest(visitor, ok)
    \/ \E f \in Fetches, ok, spawnOk \in BOOLEAN :
          CreateAlternativeSnapshot(f, ok, spawnOk)
    \/ IdleImageLoaded
    \/ \E f \in Fetches : FetchData(f)
    \/ \E f \in Fetches : FetchClose(f)
    \/ \E f \in Fetches : FetchError(f)
    \/ SnapshotTick
    \/ \E f \in Fetches : SnapshotExpire(f)
    \/ \E r \in Calls, ok \in BOOLEAN : AwaitSnapshot(r, ok)
    \/ \E r \in Calls : ResizeError(r)
    \/ \E r \in Calls : ResizeClose(r)

SpecSnapshot == Init /\ [][NextSnapshot]_vars

\* The event loop serves every handler that is ready, every download and
\* every ffmpeg process comes to an end and time passes: no step but a new
\* request of the hub is put off for ever.
SnapshotSettles ==
    \/ \E f \in Fetches, ok, spawnOk \in BOOLEAN :
          CreateAlternativeSnapshot(f, ok, spawnOk)
    \/ \E f \in Fetches : FetchClose(f)
    \/ \E f \in Fetches : FetchError(f)
    \/ SnapshotTick
    \/ \E f \in Fetches : SnapshotExpire(f)
    \/ \E r \in Calls, ok \in BOOLEAN : AwaitSnapshot(r, ok)
    \/ \E r \in Calls : ResizeError(r)
    \/ \E r \in Calls : ResizeClose(r)

SpecSnapshotFair == SpecSnapshot /\ WF_vars(SnapshotSettles)

\* ------------------------------------------------- motion state (visitor)
MaxVisitors  == 3       \* visitor-picture events in one behaviour
MotionWindow == 2       \* CAMERA_TIMEOUT_DURATION, in clock ticks

Timers == DOMAIN motionTimers

Visits == DOMAIN visitors

\* clearTimeout(context.motionTimer): the field keeps its reference.
ClearMotionTimer(ts, ctx) ==
    IF ctx.motionTimer # 0
    THEN [ts EXCEPT ![ctx.motionTimer].armed = FALSE]
    ELSE ts

\* The listener of VISITOR_PICTURE_STORED, from the push event to its last
\* await: without visitor list or picture (`fetched` false) it returns;
\* else it clears the timer the context holds and starts the resize of the
\* picture.  `sets` is the number of times the motion state had been set
\* when the event came.
VisitorPictureStored(fetched) ==
    /\ Len(visitors) < MaxVisitors
    /\ IF fetched
       THEN /\ motionTimers' = ClearMotionTimer(motionTimers, context)
            /\ visitors' = Append(visitors, [stage |-> "resizing",
                                             sets |-> Len(motionTimers)])
       ELSE /\ visitors' = Append(visitors, [stage |-> "returned",
                                             sets |-> Len(motionTimers)])
            /\ UNCHANGED motionTimers
    /\ last' = Event("visitor", 0)
    /\ UNCHANGED <<context, delegate>>

\* resizeSnapshotWithPadding settles and the listener resumes: it stores the
\* visitor, a new timer and motionOnCamera; or the resize process could not
\* be spawned and the listener ends with the rejection.
Resized(v, ok) ==
    /\ visitors[v].stage = "resizing"
    /\ IF ok
       THEN /\ visitors' = [visitors EXCEPT ![v].stage = "stored"]
            /\ motionTimers' = Append(motionTimers,
                                      [armed |-> TRUE, age |-> 0])
            /\ context' = [motionOnCamera |-> TRUE,
                           motionTimer |-> Len(motionTimers) + 1,
                           visitorInfo |-> v]
       ELSE /\ visitors' = [visitors EXCEPT ![v].stage = "rejected"]
            /\ UNCHANGED <<context, motionTimers>>
    /\ last' = Event("resized", 0)
    /\ UNCHANGED <<delegate>>

\* The callback of a timer made by createMotionTimer.
MotionDue(t) == motionTimers[t].armed /\ motionTimers[t].age >= MotionWindow

MotionTimeout(t) ==
    /\ MotionDue(t)
    /\ motionTimers' = [ClearMotionTimer(motionTimers, context)
                           EXCEPT ![t].armed = FALSE]
    /\ context' = [motionOnCamera |-> FALSE, motionTimer |-> 0,
                   visitorInfo |-> 0]
    /\ last' = Event("motionTimeout", 0)
    /\ UNCHANGED <<visitors, delegate>>

\* One clock tick; a timer that is due fires first.  The clock of a timer
\* runs from its creation until the window has been overrun.
MotionTick ==
    /\ \A t \in Timers : ~MotionDue(t)
    /\ \E t \in Timers : motionTimers[t].age <= MotionWindow
    /\ motionTimers' = [t \in Timers |->
                           IF motionTimers[t].age <= MotionWindow
                           THEN [motionTimers[t] EXCEPT !.age = @ + 1]
                           ELSE motionTimers[t]]
    /\ last' = Event("motionTick", 0)
    /\ UNCHANGED <<context, visitors, delegate>>

\* GET of the MotionDetected characteristic.
GetMotionDetected ==
    /\ last' = [Event("motionDetected", 0) EXCEPT
                   !.callback = IF context.motionOnCamera THEN "true"
                                ELSE "false"]
    /\ UNCHANGED <<motionVars, delegate>>

NextMotion ==
    \/ \E fetched \in BOOLEAN : VisitorPictureStored(fetched)
    \/ \E v \in Visits, ok \in BOOLEAN : Resized(v, ok)
    \/ \E t \in Timers : MotionTimeout(t)
    \/ MotionTick
    \/ GetMotionDetected

SpecMotion == Init /\ [][NextMotion]_vars

\* The handler of APIEvent.SHUTDOWN.  `for(const session in
\* this.ongoingSessions)` enumerates the enumerable string keys of the Map
\* object, of which it has none: the loop body does not run.  The handler
\* then drops the visitor and cancels the motion timer.
Shutdown ==
    /\ ~NextTickPending
    /\ motionTimers' = ClearMotionTimer(motionTimers, context)
    /\ context' = [context EXCEPT !.visitorInfo = 0, !.motionTimer = 0]
    /\ last' = Event("shutdown", 0)
    /\ UNCHANGED <<streamVars, snapshotVars, visitors, plannerVars, aside>>

\* The delegate as CameraAccessories constructs it, followed through one
\* ActiveSession, with the shutdown of the host.
NextShutdown ==
    \/ Step(SessionIds, {{}}, 1, FALSE)
    \/ Shutdown

SpecShutdown == Init /\ [][NextShutdown]_vars

\* ---------------------------------------------------- resolution planner
Widths == {320, 1280, 1920}

Heights == {240, 720, 1080}

MaxWidths == {Undefined, 0, 640, 1280}

MaxHeights == {Undefined, 0, 480, 720}

\* videoConfig.videoFilter?.split(",") || []
VideoFilters ==
    {<<>>, <<Filter("none")>>, <<Filter("hflip")>>,
     <<Filter("hflip"), Filter("none")>>, <<Filter("none"), Filter("none")>>}

VideoConfigs ==
    [maxWidth : MaxWidths, maxHeight : MaxHeights, forceMax : BOOLEAN,
     videoFilter : VideoFilters, audio : BOOLEAN]

\* startStream and handleSnapshotRequest call determineResolution.
PlanResolution(request, isSnapshot) ==
    /\ resolution' = [planned |-> TRUE, request |-> request,
                      isSnapshot |-> isSnapshot,
                      info |-> DetermineResolution(videoConfig, request,
                                                   isSnapshot)]
    /\ last' = Event("determineResolution", 0)
    /\ UNCHANGED <<videoConfig, streamVars, snapshotVars, motionVars, aside>>

InitPlanner == \E config \in VideoConfigs : ConstructedWith(FALSE, config)

NextPlanner ==
    \E width \in Widths, height \in Heights, isSnapshot \in BOOLEAN :
        PlanResolution([width |-> width, height |-> height], isSnapshot)

SpecPlanner == InitPlanner /\ [][NextPlanner]_vars

\* ------------------------------------------------------------ the client
MaxAttempts == 3        \* calls of handler.handle() in one behaviour
MaxTimeouts == 2        \* refresh timeouts armed at the same time

\* this.handler?.handle(): a connection attempt, when there is a handler.
Handle(c) == IF c.handler THEN [c EXCEPT !.attempts = @ + 1] ELSE c

\* enqueueEstablishment without its early return.
EnqueueEstablishmentAgain(c) ==
    [c EXCEPT !.enqueuedEstablishment = TRUE, !.intervals = @ + 1]

\* enqueueEstablishment(): arm the polling interval unless one is held.
EnqueueEstablishment(c) ==
    IF c.enqueuedEstablishment
    THEN c
    ELSE [c EXCEPT !.enqueuedEstablishment = TRUE, !.intervals = @ + 1]

\* What a handler of the client leaves alone.
ClientStep(op, c) ==
    /\ client' = c
    /\ last' = Event(op, 0)
    /\ UNCHANGED <<streamVars, snapshotVars, motionVars, plannerVars,
                   prepareVars, versions>>

\* prepareService(): the handler is created once the complex has been
\* found; findMatchedComplex throws when it has not.
PrepareService(ok) ==
    /\ ~client.handler
    /\ ClientStep(IF ok THEN "prepareService" ELSE "prepareServiceThrew",
                  [client EXCEPT !.handler = ok])
    /\ UNCHANGED semaphore

\* startService(): a connection attempt when there is a handler.
StartService ==
    /\ client.attempts < MaxAttempts
    /\ ClientStep("startService", Handle(client))
    /\ UNCHANGED semaphore

\* The listener of LoginSubTypes.MENU_RESPONSE, registered on the handler.
MenuResponse ==
    /\ client.handler
    /\ ClientStep("menuResponse", [client EXCEPT !.isLoggedIn = TRUE])
    /\ UNCHANGED semaphore

\* handler.onDisconnected
OnDisconnected ==
    /\ client.handler
    /\ client.attempts < MaxAttempts
    /\ ClientStep("onDisconnected",
                  IF client.isRefreshing
                  THEN client
                  ELSE IF semaphore
                  THEN EnqueueEstablishment(
                           [client EXCEPT !.isLoggedIn = FALSE])
                  ELSE Handle([client EXCEPT !.isLoggedIn = FALSE]))
    /\ UNCHANGED semaphore

\* refresh(), which checkKeepAlive calls.
Refresh ==
    /\ client.attempts < MaxAttempts
    /\ client.timeouts < MaxTimeouts
    /\ ClientStep("refresh",
                  IF semaphore
                  THEN EnqueueEstablishment(client)
                  ELSE [Handle(client) EXCEPT !.isRefreshing = TRUE,
                                              !.timeouts = @ + 1])
    /\ UNCHANGED semaphore

\* The timeout refresh arms.
RefreshTimeout ==
    /\ client.timeouts > 0
    /\ ClientStep("refreshTimeout",
                  [client EXCEPT !.isRefreshing = FALSE, !.timeouts = @ - 1])
    /\ UNCHANGED semaphore

\* A tick of an interval enqueueEstablishment has armed: clearInterval
\* cancels the interval the field holds.
EstablishmentTick ==
    /\ client.intervals > 0
    /\ client.attempts < MaxAttempts
    /\ ClientStep("establishmentTick",
                  IF semaphore
                  THEN client
                  ELSE Handle([client EXCEPT
                          !.intervals = IF client.enqueuedEstablishment
                                        THEN @ - 1 ELSE @,
                          !.enqueuedEstablishment = FALSE]))
    /\ UNCHANGED semaphore

\* Semaphore.createSemaphore(), as the UI server calls it.
CreateSemaphore ==
    /\ semaphore' = TRUE
    /\ ClientStep("createSemaphore", client)

\* Semaphore.removeSemaphore(), as the UI server calls it.
RemoveSemaphore ==
    /\ semaphore' = FALSE
    /\ ClientStep("removeSemaphore", client)

\* The client is constructed while the UI server holds the semaphore or not.
InitClient == \E locked \in BOOLEAN : Loaded(FALSE, Configured, locked, NoVersions)

NextClient ==
    \/ \E ok \in BOOLEAN : PrepareService(ok)
    \/ StartService
    \/ MenuResponse
    \/ OnDisconnected
    \/ Refresh
    \/ RefreshTimeout
    \/ EstablishmentTick
    \/ CreateSemaphore
    \/ RemoveSemaphore

SpecClient == InitClient /\ [][NextClient]_vars

\* ------------------------------------------------------ SemanticVersion
MaxNumber == 1          \* the largest major, minor or patch number
MaxBeta   == 1          \* the largest beta number
NumVersions == 3        \* SemanticVersion objects at hand

Release == -1           \* beta of a version that is not a beta

Numbers == 0 .. MaxNumber

Betas == {Release} \cup (0 .. MaxBeta)

\* Utils.createSemanticVersion(major, minor, patch, beta)
CreateSemanticVersion(major, minor, patch, beta) ==
    [major |-> major, minor |-> minor, patch |-> patch, beta |-> beta]

SemanticVersions ==
    {CreateSemanticVersion(major, minor, patch, beta) :
        major \in Numbers, minor \in Numbers, patch \in Numbers,
        beta \in Betas}

\* The loop of isNewerThan over [major, minor, patch], from index i on: it
\* returns at the first index where the arrays differ.
RECURSIVE Loop(_, _, _)
Loop(a, b, i) ==
    IF i > Len(a) THEN "through"
    ELSE IF a[i] > b[i] THEN "true"
    ELSE IF a[i] < b[i] THEN "false"
    ELSE Loop(a, b, i + 1)

\* isNewerThan with the comparison of beta left out.
IsNewerThanByNumbers(this, spec) ==
    Loop(<<this.major, this.minor, this.patch>>,
         <<spec.major, spec.minor, spec.patch>>, 1) = "true"

\* this.isNewerThan(spec)
IsNewerThan(this, spec) ==
    LET returned == Loop(<<this.major, this.minor, this.patch>>,
                         <<spec.major, spec.minor, spec.patch>>, 1)
    IN  IF returned # "through" THEN returned = "true"
        ELSE IF this.beta = Release /\ spec.beta # Release THEN TRUE
        ELSE IF this.beta # Release /\ spec.beta = Release THEN FALSE
        ELSE IF /\ this.beta # Release
                /\ spec.beta # Release
                /\ this.beta > spec.beta THEN TRUE
        ELSE FALSE

\* A call of isNewerThan on two of the versions at hand.
IsNewerThanCall(i, j) ==
    /\ versions' = [versions EXCEPT
                        !.this = i, !.spec = j,
                        !.newer = IsNewerThan(versions.of[i], versions.of[j])]
    /\ last' = Event("isNewerThan", 0)
    /\ UNCHANGED <<streamVars, snapshotVars, motionVars, plannerVars,
                   prepareVars, clientVars>>

\* The versions at hand are any the plugin can create.
InitVersions ==
    \E of \in [1 .. NumVersions -> SemanticVersions] :
        Loaded(FALSE, Configured, FALSE,
               [of |-> of, this |-> 0, spec |-> 0, newer |-> FALSE])

NextVersions ==
    \E i \in DOMAIN versions.of, j \in DOMAIN versions.of :
        IsNewerThanCall(i, j)

SpecVersions == InitVersions /\ [][NextVersions]_vars

\* ------------------------------------------------------------ properties
IsEntry(o) ==
    /\ sessions[o].sid \in DOMAIN ongoingSessions
    /\ ongoingSessions[sessions[o].sid] = o

ArmedTimeouts(s) == (IF s.timeout = "armed" THEN 1 ELSE 0) + s.strayTimeouts

StartOps == {"startStream", "startStreamNotFound"}

\* Every process of the object has had stop() called exactly n times.
StopsAre(s, n) ==
    /\ s.mainProcess.stops = n
    /\ s.returnProcess.state # "none" => s.returnProcess.stops = n

\* C1: no session id is in pendingSessions and in ongoingSessions at the
\* same time.
C1_PendingXorActive == pendingSessions \cap DOMAIN ongoingSessions = {}

\* C2: a start request for an id with no PendingSession calls back with the
\* session-not-found error and changes neither map, no ActiveSession and no
\* prepare in flight.
C2_StartNotFound ==
    [][\A sid \in SessionIds :
          (last'.op \in StartOps /\ last'.sid = sid
              /\ sid \notin pendingSessions)
          => /\ last'.callback = "error"
             /\ UNCHANGED <<pendingSessions, ongoingSessions, sessions,
                            prepares>>]_vars

C2_Witness ==
    /\ last.op = "startStreamNotFound"
    /\ last.sid \in DOMAIN ongoingSessions

\* C3: a start request for an id never prepared, or stopped since its last
\* prepare, reports session-not-found and creates no Active entry.
C3_StartAfterStop ==
    [][\A sid \in SessionIds :
          (last'.op \in StartOps /\ last'.sid = sid /\ sid \in unprepared)
          => /\ last'.op = "startStreamNotFound"
             /\ last'.callback = "error"
             /\ ongoingSessions' = ongoingSessions]_vars

\* C4: however often and after whatever handler stopStream is invoked, no
\* ActiveSession has its socket closed twice or a supervisor stopped twice.
C4_StopIdempotent ==
    \A o \in Refs :
        /\ sessions[o].closes <= 1
        /\ sessions[o].mainProcess.stops <= 1
        /\ sessions[o].returnProcess.state # "none"
              => sessions[o].returnProcess.stops <= 1

\* A stop request served after an earlier teardown whose grace timers have
\* already run out.
C4_Witness ==
    /\ last.op = "stop"
    /\ \E o \in Refs :
          /\ sessions[o].closes = 1
          /\ sessions[o].mainProcess.killTimeout = "spent"
          /\ sessions[o].returnProcess.state # "none"
          /\ sessions[o].returnProcess.killTimeout = "spent"

\* C5: an ActiveSession that is not, or no longer, the entry of its id has
\* its socket closed, no timer armed and every supervisor stopped once.
C5_ReleasedOnceUnmapped ==
    \A o \in Refs :
        ~IsEntry(o) =>
            /\ sessions[o].socket = "closed"
            /\ sessions[o].closes = 1
            /\ ArmedTimeouts(sessions[o]) = 0
            /\ sessions[o].feedInterval # "armed"
            /\ StopsAre(sessions[o], 1)

\* C6: whichever guarded calls of stopStream throw, the handler that ran it
\* leaves no entry for the id, and the ActiveSession it tore down has had
\* its socket closed and each of its supervisors asked to stop.
C6_TeardownTotal ==
    last.stopped =>
        /\ last.sid \notin DOMAIN ongoingSessions
        /\ \A o \in Refs :
              sessions[o].sid = last.sid =>
                  /\ sessions[o].closes = 1
                  /\ StopsAre(sessions[o], 1)

\* The socket close and the main supervisor's stop both threw.
C6_Witness ==
    /\ last.stopped
    /\ last.caught = {"socket", "mainProcess"}
    /\ \E o \in Refs : /\ sessions[o].sid = last.sid
                       /\ sessions[o].returnProcess.state # "none"
                       /\ sessions[o].returnProcess.stops = 1

\* C7: an Active session that has received no datagram does not outlive the
\* window of rtcp_interval * 5 seconds.
C7_StoppedWithoutDatagram ==
    \A sid \in DOMAIN ongoingSessions :
        LET s == sessions[ongoingSessions[sid]]
        IN  ~s.datagrams => s.quiet <= RtcpWindow

\* C8: an ActiveSession never has two inactivity timers armed; an Active
\* session that has received a datagram has one armed, due one window after
\* the last datagram; and when it expires the forced-stop signal is raised,
\* stopStream runs and the id has no Active entry.
C8_InactivityTimer ==
    /\ \A o \in Refs : ArmedTimeouts(sessions[o]) <= 1
    /\ \A o \in Refs :
          (IsEntry(o) /\ sessions[o].datagrams)
          => /\ sessions[o].timeout = "armed"
             /\ sessions[o].quiet <= RtcpWindow
    /\ last.op = "inactive"
          => /\ last.forced
             /\ last.stopped
             /\ last.sid \notin DOMAIN ongoingSessions

\* The timer armed by a datagram has expired and torn the session down.
C8_Witness ==
    /\ last.op = "inactive"
    /\ \E o \in Refs : /\ sessions[o].datagrams
                       /\ sessions[o].closes = 1
                       /\ sessions[o].timeout = "spent"

\* C9: the ready callback of a start request is invoked at most once.
C9_ReadyAtMostOnce ==
    \A o \in Refs :
        sessions[o].mainProcess.readyOk + sessions[o].mainProcess.readyErr <= 1

\* C10: when a process exits with a non-zero code or by a signal, its
\* supervisor neither stopped nor having killed it, the owning session is
\* torn down: no longer the entry of its id, socket closed, no timer armed,
\* every supervisor stopped.
TornDown(o) ==
    /\ ~IsEntry(o)
    /\ sessions[o].socket = "closed"
    /\ ArmedTimeouts(sessions[o]) = 0
    /\ sessions[o].feedInterval # "armed"
    /\ StopsAre(sessions[o], 1)

C10_AbnormalExitTearsDown ==
    [][\A o \in Refs, w \in Which :
          (/\ sessions[o][w].state = "running"
           /\ sessions'[o][w].state = "exited"
           /\ last'.code # 0
           /\ sessions[o][w].stops = 0
           /\ ~sessions[o][w].killed)
          => TornDown(o)']_vars

\* C11: when the main process exits into the Error branch of the exit
\* handler, the ready callback is invoked with an error if it has never been
\* invoked and the forced-stop signal is not raised; if it was invoked
\* before, the forced-stop signal is raised and the callback is not invoked.
C11_ExitNotifiesByCallback ==
    [][\A o \in Refs :
          (/\ sessions[o].mainProcess.state = "running"
           /\ sessions'[o].mainProcess.state = "exited"
           /\ last'.op = "exitError")
          => LET p == sessions[o].mainProcess
             IN  IF p.readyOk + p.readyErr = 0
                 THEN last'.callback = "error" /\ ~last'.forced
                 ELSE last'.callback = "none" /\ last'.forced]_vars

\* C12: when the spawn of the main process fails, the handler of its 'error'
\* event invokes the pending ready callback with an error, and leaves the
\* session id without Active entry, the session's feed and inactivity timers
\* cleared and its liveness socket closed.
C12_SpawnFailureTearsDown ==
    [][\A o \in Refs :
          (/\ sessions[o].mainProcess.state = "spawnfail"
           /\ sessions'[o].mainProcess.state = "failed")
          => /\ sessions[o].mainProcess.callback
             /\ last'.callback = "error"
             /\ sessions'[o].mainProcess.readyErr = 1
             /\ sessions'[o].mainProcess.readyOk = 0
             /\ sessions[o].sid \notin DOMAIN ongoingSessions'
             /\ sessions'[o].feedInterval # "armed"
             /\ ArmedTimeouts(sessions'[o]) = 0
             /\ sessions'[o].socket = "closed"]_vars

\* The spawn failure of the main process has been handled.
C12_Witness ==
    /\ last.op = "processError"
    /\ last.callback = "error"
    /\ \E o \in Refs : /\ sessions[o].mainProcess.state = "failed"
                       /\ sessions[o].sid = last.sid
                       /\ sessions[o].socket = "closed"

\* C13: a stop request calls back without error and leaves its id without
\* Active entry; when the id had no Active entry it changes nothing:
\* pendingSessions, the entries of the other ids, every ActiveSession and
\* the prepares in flight stay as they were.
C13_StopWithoutEntry ==
    [][\A sid \in AllIds :
          (last'.op = "stop" /\ last'.sid = sid)
          => /\ last'.callback = "ok"
             /\ sid \notin DOMAIN ongoingSessions'
             /\ \A other \in DOMAIN ongoingSessions \ {sid} :
                   /\ other \in DOMAIN ongoingSessions'
                   /\ ongoingSessions'[other] = ongoingSessions[other]
             /\ sid \notin DOMAIN ongoingSessions
                   => UNCHANGED <<pendingSessions, ongoingSessions,
                                  sessions, prepares>>]_vars

\* A stop request for an id that is Pending and has no Active entry, served
\* while another id's session is Active with its inactivity timer armed.
C13_Witness ==
    /\ last.op = "stop"
    /\ last.sid \in pendingSessions
    /\ \E sid \in DOMAIN ongoingSessions :
          /\ sid # last.sid
          /\ sessions[ongoingSessions[sid]].timeout = "armed"
          /\ sessions[ongoingSessions[sid]].feedInterval = "armed"
          /\ sessions[ongoingSessions[sid]].socket = "open"

\* C14: a reconfigure request calls back once, without error, and changes
\* neither map, no ActiveSession (timers, socket, processes) and no prepare
\* in flight, whether its id is Idle, Pending or Active.
C14_ReconfigureNoEffect ==
    [][\A sid \in AllIds :
          (last'.op = "reconfigure" /\ last'.sid = sid)
          => /\ last'.callback = "ok"
             /\ ~last'.forced
             /\ ~last'.stopped
             /\ UNCHANGED <<returnAudioTarget, pendingSessions,
                            ongoingSessions, sessions, prepares>>]_vars

\* A reconfigure request served for an Active session whose inactivity and
\* feed timers are armed and whose main process is running.
C14_Witness ==
    /\ last.op = "reconfigure"
    /\ last.sid \in DOMAIN ongoingSessions
    /\ LET s == sessions[ongoingSessions[last.sid]]
       IN  /\ s.timeout = "armed"
           /\ s.feedInterval = "armed"
           /\ s.socket = "open"
           /\ s.mainProcess.state = "running"

\* C15: a start request leaves its id without PendingSession, and a start
\* request for an id whose PendingSession an earlier start has taken, no
\* prepareStream having completed since, reports session-not-found, creates
\* no ActiveSession and changes no entry and no resource.
C15_PendingConsumedOnce ==
    [][\A sid \in AllIds :
          (last'.op \in StartOps /\ last'.sid = sid)
          => /\ sid \notin pendingSessions'
             /\ sid \in consumed
                   => /\ last'.op = "startStreamNotFound"
                      /\ last'.callback = "error"
                      /\ UNCHANGED <<ongoingSessions, sessions>>]_vars

\* A second start request for an id whose session is Active and running.
C15_Witness ==
    /\ last.op = "startStreamNotFound"
    /\ last.sid \in consumed
    /\ last.sid \in DOMAIN ongoingSessions
    /\ sessions[ongoingSessions[last.sid]].mainProcess.state = "running"
    /\ sessions[ongoingSessions[last.sid]].socket = "open"

\* C16: at most one fetch is unresolved at a time and it is the promise in
\* the slot; a snapshot request issued while it is unresolved awaits that
\* promise and creates no promise and no process; every request waiting for
\* an unresolved fetch waits for the one in the slot; and no fetch spawns
\* more than one process, a settled one having spawned exactly one.
Unresolved == {f \in Fetches : promises[f].state = "pending"}

C16_FetchDeduplicated ==
    [][/\ (last'.op = "snapshotRequest" /\ Unresolved # {})
          => /\ promises' = promises
             /\ snapshotPromise' = snapshotPromise
             /\ requests'[Len(requests')].promise \in Unresolved
       /\ Cardinality(Unresolved') <= 1
       /\ \A f \in Unresolved' : snapshotPromise' = f
       /\ \A r \in DOMAIN requests' :
             (/\ requests'[r].stage = "fetch"
              /\ requests'[r].promise \in Unresolved')
             => requests'[r].promise = snapshotPromise'
       /\ \A f \in DOMAIN promises' :
             /\ promises'[f].spawns <= 1
             /\ promises'[f].state # "pending" => promises'[f].spawns = 1]_vars

\* Three requests wait for the same unresolved fetch, whose one process is
\* running.
C16_Witness ==
    /\ Len(requests) = 3
    /\ Len(promises) = 1
    /\ promises[1].state = "pending"
    /\ promises[1].process = "running"
    /\ \A r \in Calls : /\ requests[r].stage = "fetch"
                        /\ requests[r].promise = 1

\* C17: a settled fetch stays in the slot until 3 seconds have passed since
\* it settled and is out of it once more than 3 seconds have passed; a
\* snapshot request served less than 3 seconds after takes the settled
\* promise and creates no promise and no process; one served 4 seconds
\* after finds the slot empty and starts a fetch; whether the fetch
\* resolved, found no output or could not spawn its process.
Recent(f) == promises[f].process = "closed" /\ promises[f].age < SnapshotExpiry

Overdue(f) == promises[f].process = "closed" /\ promises[f].age > SnapshotExpiry

C17_SlotClearedAfterExpiry ==
    [][/\ \A f \in DOMAIN promises' :
             /\ promises'[f].state # "pending" <=> promises'[f].process = "closed"
             /\ (promises'[f].process = "closed"
                    /\ promises'[f].age < SnapshotExpiry)
                => snapshotPromise' = f
             /\ (promises'[f].process = "closed"
                    /\ promises'[f].age > SnapshotExpiry)
                => snapshotPromise' # f
       /\ \A f \in Fetches :
             (last'.op = "snapshotRequest" /\ Recent(f))
             => /\ promises' = promises
                /\ requests'[Len(requests')].promise = f
       /\ (last'.op = "snapshotRequest" /\ Fetches # {}
              /\ \A f \in Fetches : Overdue(f))
          => /\ snapshotPromise = 0
             /\ Len(promises') = Len(promises) + 1
             /\ snapshotPromise' = Len(promises')
             /\ requests'[Len(requests')].promise = Len(promises')]_vars

\* A fetch that could not spawn its process settled 4 seconds ago, and a
\* request has started the next fetch.
C17_Witness ==
    /\ last.op = "snapshotRequest"
    /\ Len(promises) = 2
    /\ promises[1].cause = "spawn"
    /\ promises[1].age = SnapshotExpiry + 1
    /\ snapshotPromise = 2
    /\ \E r \in Calls : requests[r].promise = 1 /\ requests[r].cached

\* C18: every handleSnapshotRequest calls its callback, exactly once and
\* never with an error value, and after a failure of the fetch or of the
\* resize without an image.
Failed(r) ==
    \/ promises[requests[r].promise].state = "rejected"
    \/ promises[requests[r].promise].executor = "failed"
    \/ requests[r].resize = "closed" /\ ~requests[r].image

C18_SnapshotCallbackOnce ==
    /\ [](\A r \in Calls :
             /\ requests[r].callbacks <= 1
             /\ ~requests[r].error
             /\ (requests[r].callbacks = 1 /\ Failed(r)) => ~requests[r].image)
    /\ \A n \in 1 .. MaxRequests :
          (n \in Calls) ~> (n \in Calls /\ requests[n].callbacks = 1)

\* C19: once the motion state has been set and no visitor event has come
\* since, motionOnCamera is true and reads return true while less than the
\* window has passed since the set; and after the window motionOnCamera is
\* false, reads return false, the visitor snapshot is cleared and no motion
\* timer is armed.
SinceSet == motionTimers[Len(motionTimers)].age

NoEventSinceSet ==
    /\ Timers # {}
    /\ \A v \in Visits : visitors[v].sets < Len(motionTimers)

C19_MotionAutoClears ==
    NoEventSinceSet =>
        /\ SinceSet < MotionWindow
              => /\ context.motionOnCamera
                 /\ last.op = "motionDetected" => last.callback = "true"
        /\ SinceSet > MotionWindow
              => /\ ~context.motionOnCamera
                 /\ last.op = "motionDetected" => last.callback = "false"
                 /\ context.visitorInfo = 0
                 /\ context.motionTimer = 0
                 /\ \A t \in Timers : ~motionTimers[t].armed

\* C20: for a live-stream request determineResolution gives maxWidth as
\* width when maxWidth is configured and forceMax is set or the requested
\* width exceeds it, else the requested width, and the height likewise; for
\* a snapshot request it gives the requested width and height.  With
\* maxWidth 1280, maxHeight 720 and forceMax, a stream request of 1920 x
\* 1080 gives 1280 x 720 and a resize filter; without forceMax a request
\* not above the maxima gives the requested dimensions.
Clamped(max, requested) ==
    IF max # Undefined /\ (videoConfig.forceMax \/ requested > max)
    THEN max ELSE requested

C20_EffectiveResolution ==
    resolution.planned =>
        LET request == resolution.request
            info == resolution.info
        IN  /\ resolution.isSnapshot
                  => /\ info.width = request.width
                     /\ info.height = request.height
            /\ ~resolution.isSnapshot
                  => /\ info.width = Clamped(videoConfig.maxWidth,
                                             request.width)
                     /\ info.height = Clamped(videoConfig.maxHeight,
                                              request.height)
            /\ (/\ ~resolution.isSnapshot
                /\ videoConfig = Configured
                /\ request = [width |-> 1920, height |-> 1080])
               => /\ info.width = 1280
                  /\ info.height = 720
                  /\ info.resizeFilter = Scale(1280, 720)
                  /\ \E i \in DOMAIN info.videoFilter :
                        info.videoFilter[i] = info.resizeFilter
            /\ (/\ ~resolution.isSnapshot
                /\ ~videoConfig.forceMax
                /\ videoConfig.maxWidth # Undefined
                /\ videoConfig.maxHeight # Undefined
                /\ request.width <= videoConfig.maxWidth
                /\ request.height <= videoConfig.maxHeight)
               => /\ info.width = request.width
                  /\ info.height = request.height

\* The stream request of 1920 x 1080 planned under maxWidth 1280, maxHeight
\* 720 and forceMax.
C20_Witness ==
    /\ resolution.planned
    /\ ~resolution.isSnapshot
    /\ videoConfig = Configured
    /\ resolution.request = [width |-> 1920, height |-> 1080]
    /\ resolution.info.width = 1280
    /\ resolution.info.height = 720
    /\ resolution.info.resizeFilter.name = "scale"

\* C21: with audio enabled, a start whose request offers an audio codec
\* other than OPUS and AAC-eld still creates the ActiveSession and maps it,
\* spawns the main process with the video arguments only, and invokes no
\* callback with an error.
UnsupportedCodec ==
    /\ last.op = "startStream"
    /\ videoConfig.audio
    /\ last.codec \notin {"OPUS", "AAC-eld"}

C21_UnsupportedAudioCodec ==
    UnsupportedCodec =>
        /\ last.sid \in DOMAIN ongoingSessions
        /\ IsEntry(ongoingSessions[last.sid])
        /\ sessions[ongoingSessions[last.sid]].mainProcess.state
               \in {"running", "spawnfail"}
        /\ last.args = VideoArgs \o <<"-loglevel level", "-progress pipe:1">>
        /\ last.callback = "none"

C21_Witness ==
    /\ UnsupportedCodec
    /\ last.sid \in DOMAIN ongoingSessions
    /\ sessions[ongoingSessions[last.sid]].mainProcess.state = "running"
    /\ Len(last.args) = Len(VideoArgs) + 2

\* C22: every start that finds a PendingSession has its callback invoked,
\* exactly once, whatever the processes do afterwards.  Stated for the
\* starts whose main process has exited: the callback of each has been
\* invoked once by then or is invoked once later.
Invoked(o) ==
    /\ Len(sessions) >= o
    /\ sessions[o].mainProcess.readyOk + sessions[o].mainProcess.readyErr = 1

MainExited(o) ==
    Len(sessions) >= o /\ sessions[o].mainProcess.state = "exited"

C22_StartCallbackInvoked ==
    \A o \in 1 .. MaxStarts : MainExited(o) ~> Invoked(o)

\* C23: once stopStream has taken an ActiveSession out of the map, neither
\* its inactivity timer nor its feed timer is armed, and no later step is
\* the callback of either or a datagram handler arming a new timer.
Stopped(o) == sessions[o].closes > 0

C23_NoTimerAfterStop ==
    /\ [](\A o \in Refs :
            Stopped(o) => /\ ArmedTimeouts(sessions[o]) = 0
                          /\ sessions[o].feedInterval # "armed")
    /\ [][\A o \in Refs :
            Stopped(o) /\ last'.sid = sessions[o].sid
                => last'.op \notin {"inactive", "feed", "message"}]_vars

C23_Witness ==
    \E o \in Refs :
        /\ Stopped(o)
        /\ sessions[o].datagrams
        /\ sessions[o].timeout = "spent"
        /\ sessions[o].feedInterval = "spent"
        /\ last.op = "killTimeout"

\* C24: no callback of the feed timer writes to the input of the main
\* process after stopStream has closed it; a callback suspended for the idle
\* image when the stop happens performs no write when it resumes.
C24_NoWriteAfterStop ==
    \A o \in Refs : ~sessions[o].mainProcess.wroteAfterEnd

\* C25: once stop() has been called on a process, its later exit, with any
\* code or signal, is not treated as abnormal: the exit handler raises no
\* forced stop, invokes no callback with a failure and tears nothing down.
ExitsAfterStop(o, w) ==
    /\ sessions[o][w].state = "running"
    /\ sessions[o][w].stops > 0
    /\ sessions'[o][w].state = "exited"

C25_ExitAfterStopExpected ==
    [][\A o \in Refs, w \in Which :
          ExitsAfterStop(o, w) =>
              /\ ~last'.forced
              /\ last'.callback # "error"
              /\ ~last'.stopped]_vars

\* C26: stop() ends the input of the process and arms the grace timer; the
\* process is killed only by that timer expiring while it has not exited;
\* an exit within the grace period cancels the timer, and from then on no
\* timer of the process is armed and no kill is issued for it.
StopArms(o, w) ==
    (sessions'[o][w].stops > sessions[o][w].stops /\ w \notin last'.caught)
        => sessions'[o][w].killTimeout = "armed"

KilledAtExpiry(o, w) ==
    (sessions'[o][w].killed /\ ~sessions[o][w].killed)
        => /\ sessions[o][w].state = "running"
           /\ sessions[o][w].killTimeout = "armed"
           /\ sessions'[o][w].killTimeout = "spent"
           /\ last'.op = "killTimeout"

ExitCancels(o, w) ==
    (/\ sessions[o][w].state = "running"
     /\ sessions[o][w].killTimeout = "armed"
     /\ sessions'[o][w].state = "exited")
        => sessions'[o][w].killTimeout = "spent"

Cancelled(p) ==
    p.state = "exited" /\ p.stops > 0 /\ p.killTimeout = "spent" /\ ~p.killed

StaysCancelled(o, w) ==
    Cancelled(sessions[o][w]) => Cancelled(sessions'[o][w])

C26_GracefulThenForced ==
    [][\A o \in Refs, w \in Which :
          HasProcess(o, w) =>
              /\ StopArms(o, w)
              /\ KilledAtExpiry(o, w)
              /\ ExitCancels(o, w)
              /\ StaysCancelled(o, w)]_vars

C26_Witness ==
    \E o \in Refs :
        /\ sessions[o].mainProcess.killed
        /\ HasProcess(o, "returnProcess")
        /\ Cancelled(sessions[o].returnProcess)
        /\ last.op = "exitExpected"

\* C27: stop() may be called at any point, also after the process has
\* exited: no grace timer is armed on a process that has exited.
C27_NoTimerAfterExit ==
    \A o \in Refs, w \in Which :
        (HasProcess(o, w) /\ sessions[o][w].state = "exited")
            => sessions[o][w].killTimeout # "armed"

\* C28: the idle image is downloaded at most once per delegate: callers of
\* createAlternativeSnapshot that need it while a download is in flight
\* share that download, so no two downloads are in flight at once.
Downloading(o) ==
    sessions[o].feeding
        + Cardinality({f \in Fetches : promises[f].executor = "downloading"})

C28_IdleImageFetchedOnce == \A o \in Refs : Downloading(o) <= 1

\* C29: when the listeners of two visitor events overlap, then once both
\* have ended at most one motion timer is armed for the accessory.
ArmedMotionTimers == {t \in Timers : motionTimers[t].armed}

C29_OneMotionTimer ==
    (\A v \in Visits : visitors[v].stage # "resizing")
        => Cardinality(ArmedMotionTimers) <= 1

\* C30: the lifetime of a PendingSession is bounded: an entry of
\* pendingSessions is eventually removed, also when no start follows its
\* prepare.
C30_PendingRemoved ==
    \A sid \in SessionIds :
        (sid \in pendingSessions) ~> (sid \notin pendingSessions)

\* C31: the response of prepareStream agrees with the PendingSession a
\* following start consumes, also when two calls for one session id
\* interleave.  Stated for the call the hub made last for the id, once no
\* call for the id is in flight: the ports and SSRCs of its response are
\* those of the SessionInfo the start takes.
CallsFor(sid) ==
    {c \in PrepareCalls : prepareCalls[c].request.sessionID = sid}

LastCallFor(sid) ==
    CHOOSE c \in CallsFor(sid) : \A d \in CallsFor(sid) : d <= c

Agrees(response, info) ==
    /\ response.video.port = info.videoReturnPort
    /\ response.video.ssrc = info.videoSSRC
    /\ response.audio.port = info.audioReturnPort
    /\ response.audio.ssrc = info.audioSSRC
    /\ <<response.video.srtp_key, response.video.srtp_salt>> = info.videoSRTP
    /\ <<response.audio.srtp_key, response.audio.srtp_salt>> = info.audioSRTP

C31_ResponseAgrees ==
    [][\A sid \in AllIds :
          (/\ sid \in DOMAIN sessionInfos
           /\ sid \notin DOMAIN sessionInfos'
           /\ \A c \in CallsFor(sid) :
                  prepareCalls[c].stage \in {"done", "rejected"}
           /\ prepareCalls[LastCallFor(sid)].stage = "done")
              => Agrees(prepareCalls[LastCallFor(sid)].response,
                        sessionInfos[sid])]_vars

\* C32: prepareStream fails only when a port allocation fails, and then it
\* stores nothing and leaves the pending and the active entries as they
\* were; when both allocations succeed it stores the PendingSession and
\* invokes its callback once, with a response and no error.
Fails(c) ==
    prepareCalls[c].stage # "rejected" /\ prepareCalls'[c].stage = "rejected"

Completes(c) ==
    prepareCalls[c].stage # "done" /\ prepareCalls'[c].stage = "done"

C32_PrepareFailsOnlyOnPorts ==
    [][\A c \in PrepareCalls :
          LET sid == prepareCalls[c].request.sessionID
              call == prepareCalls'[c]
          IN  /\ Fails(c) =>
                    /\ last'.op = "pickPortFailed"
                    /\ call.callbacks = 0
                    /\ UNCHANGED <<sessionInfos, pendingSessions,
                                   ongoingSessions, sessions>>
              /\ (prepareCalls[c].stage = "audio" /\ last'.op = "prepared"
                     /\ prepareCalls'[c] # prepareCalls[c])
                    => Completes(c)
              /\ Completes(c) =>
                    /\ sid \in pendingSessions'
                    /\ sid \in DOMAIN sessionInfos'
                    /\ Agrees(call.response, sessionInfos'[sid])
                    /\ call.response.video.port \in Ports
                    /\ call.callbacks = 1
                    /\ last'.callback = "ok"
                    /\ UNCHANGED <<ongoingSessions, sessions>>]_vars

C32_Witness ==
    /\ last.op = "pickPortFailed"
    /\ pendingSessions # {}
    /\ \E c, d \in PrepareCalls :
          /\ prepareCalls[c].stage = "rejected"
          /\ prepareCalls[c].request.sessionID \notin pendingSessions
          /\ prepareCalls[d].stage = "done"
          /\ prepareCalls[d].callbacks = 1

\* C33: a request or an event of one session id leaves every other session
\* id as it was: its pending entry, its entry in ongoingSessions and every
\* ActiveSession created for it, with timers, socket and processes.
Untouched(b) ==
    /\ (b \in pendingSessions') = (b \in pendingSessions)
    /\ (b \in DOMAIN ongoingSessions') = (b \in DOMAIN ongoingSessions)
    /\ b \in DOMAIN ongoingSessions => ongoingSessions'[b] = ongoingSessions[b]
    /\ \A o \in Refs : sessions[o].sid = b => sessions'[o] = sessions[o]

C33_OtherSessionsUntouched ==
    [][\A b \in AllIds : b # last'.sid => Untouched(b)]_vars

C33_Witness ==
    \E o, other \in Refs :
        /\ sessions[o].sid # sessions[other].sid
        /\ last.op = "exitError"
        /\ last.sid = sessions[o].sid
        /\ sessions[o].closes > 0
        /\ IsEntry(other)
        /\ sessions[other].timeout = "armed"
        /\ sessions[other].mainProcess.state = "running"

\* C34: the filter that rounds the dimensions to even numbers appears only
\* in the streaming chain: the snapshot chain and the resize filter the
\* planner returns never contain it, and the streaming chain contains it,
\* once and last, exactly when a resize filter was derived.
Evens(chain) == {i \in DOMAIN chain : chain[i].name = "even"}

C34_EvenOnlyInStreamChain ==
    resolution.planned =>
        LET info == resolution.info IN
        /\ Evens(info.snapshotFilter) = {}
        /\ info.resizeFilter.name # "even"
        /\ IF info.resizeFilter.name = "scale"
           THEN Evens(info.videoFilter) = {Len(info.videoFilter)}
           ELSE Evens(info.videoFilter) = {}

C34_Witness ==
    /\ resolution.planned
    /\ resolution.info.snapshotFilter = <<Filter("hflip")>>
    /\ resolution.info.resizeFilter.name = "scale"
    /\ Len(resolution.info.videoFilter) = 3
    /\ resolution.info.videoFilter[3] = Filter("even")

\* C35: the motion state, once true, becomes false again: in no state is
\* motionOnCamera true while no motion timer is armed to clear it and no
\* listener is on its way to arm one.
C35_MotionHasTimer ==
    context.motionOnCamera =>
        \/ ArmedMotionTimers # {}
        \/ \E v \in Visits : visitors[v].stage = "resizing"

\* C36: when the shutdown of the host has been handled no session is
\* active: ongoingSessions is empty, and every ActiveSession has its timers
\* cleared, its socket closed and its processes asked to stop.
C36_ShutdownStopsSessions ==
    last.op = "shutdown" =>
        /\ DOMAIN ongoingSessions = {}
        /\ \A o \in Refs :
              /\ ArmedTimeouts(sessions[o]) = 0
              /\ sessions[o].feedInterval # "armed"
              /\ sessions[o].socket = "closed"
              /\ sessions[o].mainProcess.stops > 0

\* C37: an error on the liveness socket of a session tears that session
\* down: when the handler has run the session id has no Active entry, and
\* the timers of the session are cleared, its socket is closed and its
\* main process has been asked to stop.
C37_SocketErrorTearsDown ==
    last.op = "socketError" =>
        /\ last.sid \notin DOMAIN ongoingSessions
        /\ ArmedTimeouts(sessions[last.ref]) = 0
        /\ sessions[last.ref].feedInterval # "armed"
        /\ sessions[last.ref].socket = "closed"
        /\ sessions[last.ref].mainProcess.stops > 0

\* C38: while the semaphore is locked a disconnect or a refresh starts no
\* connection attempt, at most one reconnection interval is armed, and the
\* tick of the interval that finds the semaphore released cancels the
\* interval and starts exactly one connection attempt.
C38_ReconnectPolling ==
    [][/\ (semaphore /\ last'.op \in {"onDisconnected", "refresh"})
            => client'.attempts = client.attempts
       /\ client'.intervals <= 1
       /\ (~semaphore /\ last'.op = "establishmentTick")
            => /\ client'.attempts = client.attempts + 1
               /\ client'.intervals = 0
               /\ ~client'.enqueuedEstablishment]_vars

\* C38, as the code has it: the tick that finds the semaphore released
\* starts one connection attempt when prepareService has created the
\* handler, and none when it has not.
C38_ReconnectPollingWithHandler ==
    [][/\ (semaphore /\ last'.op \in {"onDisconnected", "refresh"})
            => client'.attempts = client.attempts
       /\ client'.intervals <= 1
       /\ (~semaphore /\ last'.op = "establishmentTick")
            => /\ client'.attempts =
                      client.attempts + (IF client.handler THEN 1 ELSE 0)
               /\ client'.intervals = 0
               /\ ~client'.enqueuedEstablishment]_vars

C38_Witness ==
    /\ last.op = "establishmentTick"
    /\ ~semaphore
    /\ client.handler
    /\ client.attempts = 1
    /\ client.intervals = 0
    /\ ~client.isLoggedIn

SameNumbers(x, y) ==
    /\ x.major = y.major
    /\ x.minor = y.minor
    /\ x.patch = y.patch

\* C39: isNewerThan is a strict total order on the versions: irreflexive,
\* asymmetric, transitive, exactly one of two distinct versions is newer
\* than the other, and a release is newer than every beta of the same
\* major.minor.patch.  A call returns what the order says.
C39_StrictTotalOrder ==
    /\ \A i \in DOMAIN versions.of, j \in DOMAIN versions.of,
          k \in DOMAIN versions.of :
          LET x == versions.of[i]
              y == versions.of[j]
              z == versions.of[k]
          IN  /\ ~IsNewerThan(x, x)
              /\ IsNewerThan(x, y) => ~IsNewerThan(y, x)
              /\ IsNewerThan(x, y) /\ IsNewerThan(y, z) => IsNewerThan(x, z)
              /\ x # y => (IsNewerThan(x, y) # IsNewerThan(y, x))
              /\ (SameNumbers(x, y) /\ x.beta = Release /\ y.beta # Release)
                    => IsNewerThan(x, y)
    /\ versions.this # 0 =>
          LET x == versions.of[versions.this]
              y == versions.of[versions.spec]
          IN  /\ versions.this = versions.spec => ~versions.newer
              /\ (SameNumbers(x, y) /\ x.beta = Release /\ y.beta # Release)
                    => versions.newer
              /\ (SameNumbers(x, y) /\ y.beta = Release) => ~versions.newer

C39_Witness ==
    /\ versions.this # 0
    /\ versions.newer
    /\ SameNumbers(versions.of[versions.this], versions.of[versions.spec])
    /\ versions.of[versions.this].beta = Release
    /\ versions.of[versions.spec].beta # Release
    /\ Cardinality({versions.of[i] : i \in DOMAIN versions.of}) = NumVersions
====
